---- MODULE Spec2Model ----
(***************************************************************************)
(* State-machine model of file_finder_bot.py: the per-user session state   *)
(* (context.user_data), the shared handle table (context.bot_data), the    *)
(* sliding-window rate limiter of gemini_query, the card pager and the     *)
(* folder search.                                                          *)
(*                                                                         *)
(* Text is modelled as a sequence of one-character strings, so that the    *)
(* string operations of the source (strip, lower, re.sub, split, `in`)     *)
(* are computed rather than assumed.                                       *)
(***************************************************************************)
EXTENDS Integers, Sequences, FiniteSets, TLC

(***************************************************************************)
(* Text helpers (Python str / re / os.path as the source uses them)        *)
(***************************************************************************)

\* The characters Python's \s, str.strip() and str.split() treat as blank.
Whitespace == {" ", "\t", "\n"}

\* os.sep of the platform the catalog was written for.
Sep == "/"

UpperChars == <<"A","B","C","D","E","F","G","H","I","J","K","L","M",
                "N","O","P","Q","R","S","T","U","V","W","X","Y","Z">>
LowerChars == <<"a","b","c","d","e","f","g","h","i","j","k","l","m",
                "n","o","p","q","r","s","t","u","v","w","x","y","z">>

LowerChar(c) ==
    IF \E i \in 1..Len(UpperChars) : UpperChars[i] = c
    THEN LowerChars[CHOOSE i \in 1..Len(UpperChars) : UpperChars[i] = c]
    ELSE c

\* str.lower()
Lower(s) == [i \in 1..Len(s) |-> LowerChar(s[i])]

\* s[k:] for a 0-based k
DropFirst(s, k) == SubSeq(s, k + 1, Len(s))

\* number of leading blanks of s
RECURSIVE LeadingBlanks(_)
LeadingBlanks(s) ==
    IF s # <<>> /\ s[1] \in Whitespace THEN 1 + LeadingBlanks(Tail(s)) ELSE 0

\* str.lstrip()
LStrip(s) == DropFirst(s, LeadingBlanks(s))

Reverse(s) == [i \in 1..Len(s) |-> s[Len(s) + 1 - i]]

\* str.strip()
Strip(s) == Reverse(LStrip(Reverse(LStrip(s))))

\* str.startswith
StartsWith(s, p) == Len(p) <= Len(s) /\ SubSeq(s, 1, Len(p)) = p

\* str.endswith
EndsWith(s, p) == Len(p) <= Len(s) /\ SubSeq(s, Len(s) - Len(p) + 1, Len(s)) = p

\* `w in s` for strings: w occurs in s as a contiguous substring
Contains(s, w) ==
    \E i \in 0..(Len(s) - Len(w)) : SubSeq(s, i + 1, i + Len(w)) = w

\* str.replace('_', ' ')
ReplaceUnderscore(s) == [i \in 1..Len(s) |-> IF s[i] = "_" THEN " " ELSE s[i]]

\* re.sub(r'[\s_]+', ' ', s): every maximal run of blanks/underscores becomes
\* one space.
RECURSIVE CollapseRuns(_)
CollapseRuns(s) ==
    IF s = <<>> THEN <<>>
    ELSE IF s[1] \in Whitespace \cup {"_"}
         THEN IF Len(s) > 1 /\ s[2] \in Whitespace \cup {"_"}
              THEN CollapseRuns(Tail(s))
              ELSE <<" ">> \o CollapseRuns(Tail(s))
         ELSE <<s[1]>> \o CollapseRuns(Tail(s))

\* str.split(): the maximal blank-free runs of s, in order.
RECURSIVE SplitWords(_)
SplitWords(s) ==
    LET t == LStrip(s)
        n == IF \E i \in 1..Len(t) : t[i] \in Whitespace
             THEN (CHOOSE i \in 1..Len(t) :
                      /\ t[i] \in Whitespace
                      /\ \A j \in 1..(i - 1) : t[j] \notin Whitespace) - 1
             ELSE Len(t)
    IN IF t = <<>> THEN <<>>
       ELSE <<SubSeq(t, 1, n)>> \o SplitWords(DropFirst(t, n))

\* index (1-based) of the last separator of p, 0 when there is none
LastSep(p) ==
    IF \E i \in 1..Len(p) : p[i] = Sep
    THEN CHOOSE i \in 1..Len(p) :
             p[i] = Sep /\ \A j \in (i + 1)..Len(p) : p[j] # Sep
    ELSE 0

\* os.path.basename
Basename(p) == DropFirst(p, LastSep(p))

\* SHERLOCK_PREFIX_PATTERN.sub('', s): ^\s*Sherlock\s*[<em dash>_-]?\s* with
\* re.IGNORECASE, removed when it matches at the start of s.  The em dash
\* (U+2014) is written "emdash".
SherlockWord == <<"s","h","e","r","l","o","c","k">>
SherlockSeparators == {"emdash", "_", "-"}

StripSherlockPrefix(s) ==
    LET a == LStrip(s)
    IN IF Len(a) >= Len(SherlockWord)
          /\ Lower(SubSeq(a, 1, Len(SherlockWord))) = SherlockWord
       THEN LET b == LStrip(DropFirst(a, Len(SherlockWord)))
                c == IF b # <<>> /\ b[1] \in SherlockSeparators
                     THEN Tail(b) ELSE b
            IN LStrip(c)
       ELSE s

(***************************************************************************)
(* Matcher                                                                 *)
(***************************************************************************)

\* re.sub(r'[\s_]+', ' ', query.lower()).strip().split()
QueryWords(query) == SplitWords(Strip(CollapseRuns(Lower(query))))

\* The cleaned, lower-cased display name a folder is matched on.
CleanFolderName(folder_path) ==
    Strip(CollapseRuns(Lower(StripSherlockPrefix(Basename(folder_path)))))

\* Mutant: one word of the query is enough.
AllWordsInName_Any(words, name) ==
    \E i \in 1..Len(words) : Contains(name, words[i])

AllWordsInName(words, name) ==
    \A i \in 1..Len(words) : Contains(name, words[i])

\* Mutant: each match is put in front of the earlier ones.
RECURSIVE MatchScan_Prepends(_, _)
MatchScan_Prepends(words, folders) ==
    IF folders = <<>> THEN <<>>
    ELSE MatchScan_Prepends(words, Tail(folders)) \o
         (IF AllWordsInName(words, CleanFolderName(folders[1]))
          THEN <<folders[1]>> ELSE <<>>)

RECURSIVE MatchScan(_, _)
MatchScan(words, folders) ==
    IF folders = <<>> THEN <<>>
    ELSE (IF AllWordsInName(words, CleanFolderName(folders[1]))
          THEN <<folders[1]>> ELSE <<>>) \o MatchScan(words, Tail(folders))

\* Mutant: a query without words is scanned like any other.
find_folder_matches_NoEmptyCheck(query, folders) ==
    MatchScan(QueryWords(query), folders)

find_folder_matches(query, folders) ==
    LET query_words == QueryWords(query)
    IN IF query_words = <<>> THEN <<>> ELSE MatchScan(query_words, folders)


(***************************************************************************)
(* Configuration (config.json) and the catalog                             *)
(***************************************************************************)

\* Limits read from config.json.  They are configuration, not code: the model
\* is checked at small values.
MAX_GEMINI_REQUESTS_PER_MINUTE == 2
MAX_PDF_SIZE_MB_AI == 2
MAX_PDF_TO_SEND_COUNT == 2
MAX_PDF_TOTAL_SIZE_MB_SEND == 4

\* The length of the rate limiter's window, in seconds.
WINDOW == 60

MODE_SEARCH == 0
MODE_AI == 1

\* a + os.sep + b
JoinPath(a, b) == a \o <<Sep>> \o b

BASE_FOLDER_NAME == <<"B">>
SCRIPT_DIR == <<"~">>

FolderAb == <<"B","/","g","/","a","b">>
FolderAc == <<"B","/","g","/","S","h","e","r","l","o","c","k","_","a","c">>
FolderAd == <<"B","/","g","/","a","d">>

FileAbTxt == JoinPath(FolderAb, <<"a","b",".","t","x","t">>)
FileAbX == JoinPath(FolderAb, <<"x",".","p","d","f">>)
FileAbY == JoinPath(FolderAb, <<"y",".","P","D","F","_">>)
FileAcTxt == JoinPath(FolderAc, <<"A","c",".","T","X","T">>)
FileAdN == JoinPath(FolderAd, <<"n",".","t","x","t">>)

\* The cached catalog: relative paths, in file order.
RELATIVE_FILE_PATHS == <<FileAbTxt, FileAbX, FileAbY, FileAcTxt, FileAdN>>

\* The sorted person folders of the catalog.
PERSON_FOLDERS == <<FolderAc, FolderAb, FolderAd>>

\* os.path.join(SCRIPT_DIR, relative path)
FullPath(rel) == JoinPath(SCRIPT_DIR, rel)

CatalogFiles == {FullPath(RELATIVE_FILE_PATHS[i]) : i \in 1..Len(RELATIVE_FILE_PATHS)}

\* os.path.getsize(path) / (1024 * 1024), for the files of the catalog
FileSizeMB(path) ==
    IF path = FullPath(FileAbY) THEN 3 ELSE 1

(***************************************************************************)
(* Bounds of the model                                                     *)
(***************************************************************************)
MaxTime == 120
MaxIds == 2
MaxDeleted == 1

Users == {1, 2}

\* The raw texts a user sends.
Texts == { <<"a">>, <<" ","B"," ">>, <<"q">>, <<"_"," ">> }

\* The results of one call of the external AI capability.
AiResults == {"raise", "text", "empty"}

(***************************************************************************)
(* State                                                                   *)
(***************************************************************************)
VARIABLES
    user_data,        \* context.user_data of every user
    pdf_map,          \* bot_data['pdf_map']: handle id -> absolute path
    id_counter,       \* bot_data['id_counter']
    disk,             \* the files that exist (os.path.exists)
    now,              \* time.time(), in seconds
    GEMINI_ENABLED,   \* set once, when the module is loaded
    ai_calls,         \* history: per user, the times of the external AI calls
                      \* of the trailing window
    ev                \* history: the event handled last and what it did

vars == <<user_data, pdf_map, id_counter, disk, now, GEMINI_ENABLED, ai_calls, ev>>

\* An optional value is a sequence of length at most one; a missing dict key
\* and a stored None read the same through dict.get, and are both NONE.
NONE == <<>>
Some(v) == <<v>>
Get(opt, default) == IF opt = NONE THEN default ELSE opt[1]

\* context.user_data of a user who has not been seen yet.  pdf_context_path,
\* current_matches and last_query hold the value itself (a missing key, None,
\* '' and [] are all falsy where the source tests them); gemini_requests is
\* the list, [] when the key is missing.
EmptyUserData ==
    [ pdf_context_path |-> NONE,
      current_matches |-> NONE,
      current_match_index |-> NONE,
      last_query |-> NONE,
      mode |-> NONE,
      gemini_requests |-> <<>>,
      send_birthday_broadcast |-> NONE ]

\* The record of the last step.  For a handled event: the user, the handler, the branch it took,
\* whether it called the external AI capability, the mode the user was in
\* when it arrived and, for a question, the request log as the rate check
\* left it (before the size check and the AI call).
NoEvent ==
    [u |-> 0, op |-> "init", out |-> "", ai |-> FALSE, before |-> MODE_SEARCH,
     rate_log |-> <<>>]

Init ==
    /\ user_data = [u \in Users |-> EmptyUserData]
    /\ pdf_map = <<>>
    /\ id_counter = 0
    /\ disk = CatalogFiles
    /\ now = 0
    /\ GEMINI_ENABLED \in BOOLEAN
    /\ ai_calls = [u \in Users |-> <<>>]
    /\ ev = NoEvent

\* context.user_data.get('mode', MODE_SEARCH)
CurrentMode(u) == Get(user_data[u].mode, MODE_SEARCH)

Event(u, op, out, ai) ==
    [u |-> u, op |-> op, out |-> out, ai |-> ai, before |-> CurrentMode(u),
     rate_log |-> <<>>]

QuestionEvent(u, out, ai, rate_log) ==
    [Event(u, "gemini_query", out, ai) EXCEPT !.rate_log = rate_log]

\* get_user_broadcast_status
get_user_broadcast_status(u) == Get(user_data[u].send_birthday_broadcast, TRUE)


(***************************************************************************)
(* Folder contents (send_folder_contents)                                  *)
(***************************************************************************)

ExtTxt == {<<".","t","x","t">>, <<".","t","x","t","_">>}
ExtPdf == {<<".","p","d","f">>, <<".","p","d","f","_">>}

\* file_path_relative.lower().endswith((...))
HasExt(rel, exts) == \E e \in exts : EndsWith(Lower(rel), e)

\* file_path_relative.startswith(folder + os.sep)
InFolder(rel, folder) == StartsWith(rel, folder \o <<Sep>>)

\* os.path.splitext(name)[0]
SplitExtRoot(name) ==
    LET dots == {i \in 1..Len(name) : name[i] = "."}
        last == CHOOSE i \in dots : \A j \in dots : j <= i
    IN IF dots # {} /\ (\E j \in 1..(last - 1) : name[j] # ".")
       THEN SubSeq(name, 1, last - 1)
       ELSE name

\* SHERLOCK_PREFIX_PATTERN.sub('', name).lower().replace('_', ' ')
CleanLower(name) == ReplaceUnderscore(Lower(StripSherlockPrefix(name)))

\* names_match of a file of the folder: one cleaned name is a prefix of the
\* other.
NamesMatch(rel, folder) ==
    LET clean_file == CleanLower(SplitExtRoot(Basename(rel)))
        base == CleanLower(Basename(folder))
    IN StartsWith(clean_file, base) \/ StartsWith(base, clean_file)

\* Step 1 of send_folder_contents: the summary file (the last matching TXT
\* of the folder, NONE when there is none) ...
RECURSIVE FolderTxt(_, _, _)
FolderTxt(paths, folder, found) ==
    IF paths = <<>> THEN found
    ELSE FolderTxt(Tail(paths), folder,
            IF InFolder(paths[1], folder) /\ HasExt(paths[1], ExtTxt)
               /\ NamesMatch(paths[1], folder)
            THEN FullPath(paths[1]) ELSE found)

\* ... and the PDF files of the folder that exist, in catalog order.
RECURSIVE FolderPdfs(_, _, _)
FolderPdfs(paths, folder, files) ==
    IF paths = <<>> THEN <<>>
    ELSE (IF InFolder(paths[1], folder) /\ ~HasExt(paths[1], ExtTxt)
             /\ HasExt(paths[1], ExtPdf) /\ FullPath(paths[1]) \in files
          THEN <<FullPath(paths[1])>> ELSE <<>>)
         \o FolderPdfs(Tail(paths), folder, files)

\* Step 3: the budget loop.  nosize are the files os.path.getsize fails on.
\* The result is the admitted files and the limit notices sent.
\* Mutant: a document that does not fit is passed over and the loop goes on.
RECURSIVE BudgetLoopSized_Continues(_, _, _, _, _)
BudgetLoopSized_Continues(pdfs, getsize, nosize, final, total_size_mb) ==
    IF pdfs = <<>> THEN [files |-> final, notices |-> <<>>]
    ELSE IF pdfs[1] \in nosize
         THEN BudgetLoopSized_Continues(Tail(pdfs), getsize, nosize, final,
                                        total_size_mb)
    ELSE IF Len(final) >= MAX_PDF_TO_SEND_COUNT
         THEN [files |-> final, notices |-> <<"count">>]
    ELSE IF total_size_mb + getsize[pdfs[1]] > MAX_PDF_TOTAL_SIZE_MB_SEND
         THEN [BudgetLoopSized_Continues(Tail(pdfs), getsize, nosize, final,
                                         total_size_mb)
                  EXCEPT !.notices = <<"size">>]
    ELSE BudgetLoopSized_Continues(Tail(pdfs), getsize, nosize,
                                   Append(final, pdfs[1]),
                                   total_size_mb + getsize[pdfs[1]])

\* Mutant: the count limit is tested before the size of the file is read.
RECURSIVE BudgetLoopSized_CountBeforeGetsize(_, _, _, _, _)
BudgetLoopSized_CountBeforeGetsize(pdfs, getsize, nosize, final, total_size_mb) ==
    IF pdfs = <<>> THEN [files |-> final, notices |-> <<>>]
    ELSE IF Len(final) >= MAX_PDF_TO_SEND_COUNT
         THEN [files |-> final, notices |-> <<"count">>]
    ELSE IF pdfs[1] \in nosize
         THEN BudgetLoopSized_CountBeforeGetsize(Tail(pdfs), getsize, nosize,
                                                 final, total_size_mb)
    ELSE IF total_size_mb + getsize[pdfs[1]] > MAX_PDF_TOTAL_SIZE_MB_SEND
         THEN [files |-> final, notices |-> <<"size">>]
    ELSE BudgetLoopSized_CountBeforeGetsize(Tail(pdfs), getsize, nosize,
                                            Append(final, pdfs[1]),
                                            total_size_mb + getsize[pdfs[1]])

\* Mutant: the size limit is tested before the count limit.
RECURSIVE BudgetLoopSized_SizeFirst(_, _, _, _, _)
BudgetLoopSized_SizeFirst(pdfs, getsize, nosize, final, total_size_mb) ==
    IF pdfs = <<>> THEN [files |-> final, notices |-> <<>>]
    ELSE IF pdfs[1] \in nosize
         THEN BudgetLoopSized_SizeFirst(Tail(pdfs), getsize, nosize, final,
                                        total_size_mb)
    ELSE IF total_size_mb + getsize[pdfs[1]] > MAX_PDF_TOTAL_SIZE_MB_SEND
         THEN [files |-> final, notices |-> <<"size">>]
    ELSE IF Len(final) >= MAX_PDF_TO_SEND_COUNT
         THEN [files |-> final, notices |-> <<"count">>]
    ELSE BudgetLoopSized_SizeFirst(Tail(pdfs), getsize, nosize,
                                   Append(final, pdfs[1]),
                                   total_size_mb + getsize[pdfs[1]])

\* The budget loop over the candidates pdfs, getsize[p] being the size in MB
\* of p and nosize the candidates whose os.path.getsize raises OSError.
RECURSIVE BudgetLoopSized(_, _, _, _, _)
BudgetLoopSized(pdfs, getsize, nosize, final, total_size_mb) ==
    IF pdfs = <<>> THEN [files |-> final, notices |-> <<>>]
    ELSE IF pdfs[1] \in nosize
         THEN BudgetLoopSized(Tail(pdfs), getsize, nosize, final, total_size_mb)
    ELSE IF Len(final) >= MAX_PDF_TO_SEND_COUNT
         THEN [files |-> final, notices |-> <<"count">>]
    ELSE IF total_size_mb + getsize[pdfs[1]] > MAX_PDF_TOTAL_SIZE_MB_SEND
         THEN [files |-> final, notices |-> <<"size">>]
    ELSE BudgetLoopSized(Tail(pdfs), getsize, nosize, Append(final, pdfs[1]),
                         total_size_mb + getsize[pdfs[1]])

\* The budget loop over files of the catalog, with their sizes on the disk.
BudgetLoop(pdfs, nosize, final, total_size_mb) ==
    BudgetLoopSized(pdfs,
                    [p \in {pdfs[i] : i \in 1..Len(pdfs)} |-> FileSizeMB(p)],
                    nosize, final, total_size_mb)

\* Step 1 for every folder of the catalog, computed once: the catalog does
\* not change after it is loaded.  The existence test of each PDF is applied
\* when the folder is sent.
CatalogFolders == {PERSON_FOLDERS[i] : i \in 1..Len(PERSON_FOLDERS)}
CatalogTxt == [f \in CatalogFolders |-> FolderTxt(RELATIVE_FILE_PATHS, f, NONE)]
CatalogPdfs ==
    [f \in CatalogFolders |-> FolderPdfs(RELATIVE_FILE_PATHS, f, CatalogFiles)]

\* What send_folder_contents finds for a folder.
FolderContents(folder, files, nosize) ==
    LET txt == CatalogTxt[folder]
        pdfs == SelectSeq(CatalogPdfs[folder], LAMBDA p : p \in files)
        sel == BudgetLoop(pdfs, nosize, <<>>, 0)
    IN [ summary |-> IF txt # NONE /\ txt \in files THEN txt ELSE NONE,
         pdfs |-> pdfs,
         documents |-> sel.files,
         notices |-> sel.notices,
         empty |-> pdfs = <<>> /\ ~(txt # NONE /\ txt \in files) ]

\* Mutant: the ids of every folder sent start again at 0.
AllocateAll_FromZero(map, counter, docs) ==
    [map |-> [i \in DOMAIN map \cup 0..(Len(docs) - 1) |->
                IF i < Len(docs) THEN docs[i + 1] ELSE map[i]],
     counter |-> IF counter > Len(docs) THEN counter ELSE Len(docs)]

\* bot_data['pdf_map'][current_id] = path; bot_data['id_counter'] = current_id + 1,
\* for every document sent, in order.
RECURSIVE AllocateAll(_, _, _)
AllocateAll(map, counter, docs) ==
    IF docs = <<>> THEN [map |-> map, counter |-> counter]
    ELSE AllocateAll(
            [i \in DOMAIN map \cup {counter} |->
                IF i = counter THEN docs[1] ELSE map[i]],
            counter + 1, Tail(docs))

\* The effect of send_folder_contents on the handle table.
send_folder_contents(folder, nosize) ==
    LET c == FolderContents(folder, disk, nosize)
        a == AllocateAll(pdf_map, id_counter, c.documents)
    IN /\ id_counter + Len(c.documents) <= MaxIds
       /\ pdf_map' = a.map
       /\ id_counter' = a.counter

\* The sets of unreadable sizes tried for a folder: none, or one of its PDFs.
NoSizeChoices(folder) ==
    LET pdfs == SelectSeq(CatalogPdfs[folder], LAMBDA p : p \in disk)
    IN {{}} \cup {{pdfs[i]} : i \in 1..Len(pdfs)}


(***************************************************************************)
(* gemini_query: the rate limiter and the AI hand-off                      *)
(***************************************************************************)

\* Mutants of the rate limiter: nothing is pruned; the entry that is exactly
\* one window old is kept.
PruneRequests_NoPrune(requests, current_time) == requests

PruneRequests_Inclusive(requests, current_time) ==
    SelectSeq(requests, LAMBDA t : current_time - t <= WINDOW)

\* [t for t in gemini_requests if current_time - t < 60]
PruneRequests(requests, current_time) ==
    SelectSeq(requests, LAMBDA t : current_time - t < WINDOW)

\* Mutant: the limit compared with > instead of >=.
RateLimitExceeded_OffByOne(requests) ==
    Len(requests) > MAX_GEMINI_REQUESTS_PER_MINUTE

\* len(gemini_requests) >= MAX_GEMINI_REQUESTS_PER_MINUTE
RateLimitExceeded(requests) ==
    Len(requests) >= MAX_GEMINI_REQUESTS_PER_MINUTE

\* gemini_requests.append(current_time)
RecordRequest(requests, current_time) == Append(requests, current_time)

\* Mutant: the size rejection leaves the request in the log.
PopRequest_Keeps(requests) == requests

\* gemini_requests.pop()
PopRequest(requests) == SubSeq(requests, 1, Len(requests) - 1)

\* Mutant: no file is over the AI size limit.
FileTooBigForAi_Never(path) == FALSE

\* file_size_mb > MAX_PDF_SIZE_MB_AI
FileTooBigForAi(path) == FileSizeMB(path) > MAX_PDF_SIZE_MB_AI

\* Mutant: the rejection resets the mode and leaves the document in place.
ResetToSearch_KeepContext(ud, requests) ==
    [ud EXCEPT !.mode = Some(MODE_SEARCH), !.gemini_requests = requests]

\* The session after the reset of the two rejections: context dropped, mode
\* back to search, the given request log stored.
ResetToSearch(ud, requests) ==
    [ud EXCEPT !.pdf_context_path = NONE,
               !.mode = Some(MODE_SEARCH),
               !.gemini_requests = requests]

\* Mutant: a failed AI call puts the session back into search mode.
AfterAiCall_ResetOnError(ud, r) ==
    IF r = "raise"
    THEN [ud EXCEPT !.pdf_context_path = NONE, !.mode = Some(MODE_SEARCH)]
    ELSE ud

\* Mutant: an answered question puts the session back into search mode.
AfterAiCall_ResetOnAnswer(ud, r) ==
    IF r = "text"
    THEN [ud EXCEPT !.pdf_context_path = NONE, !.mode = Some(MODE_SEARCH)]
    ELSE ud

\* What the handler does once the AI call has ended with result r.  Neither
\* an exception nor a missing text changes the session.
AfterAiCall(ud, r) == ud

\* The reply that ends the handler after an AI call with result r.
AiOutcome(r, with_file) ==
    IF r = "raise" THEN "ai_error"
    ELSE IF r = "text" THEN "answered"
    ELSE IF with_file THEN "no_answer_doc_says_mode_reset"
    ELSE "no_answer_says_mode_reset"

\* The history of AI calls keeps the calls of the trailing window.
NoteAiCall(u) ==
    ai_calls' = [ai_calls EXCEPT ![u] = Append(@, now)]

gemini_query(u, r) ==
    LET ud == user_data[u]
        pruned == PruneRequests(ud.gemini_requests, now)
        recorded == RecordRequest(pruned, now)
        path == ud.pdf_context_path
    IN IF ~GEMINI_ENABLED
       THEN /\ ev' = Event(u, "gemini_query", "disabled", FALSE)
            /\ UNCHANGED <<user_data, ai_calls>>
       ELSE IF RateLimitExceeded(pruned)
       THEN /\ user_data' = [user_data EXCEPT ![u] = ResetToSearch(ud, pruned)]
            /\ ev' = QuestionEvent(u, "rate_limited", FALSE, pruned)
            /\ UNCHANGED ai_calls
       ELSE IF path # NONE /\ path \in disk
       THEN IF FileTooBigForAi(path)
            THEN /\ user_data' = [user_data EXCEPT
                        ![u] = ResetToSearch(ud, PopRequest(recorded))]
                 /\ ev' = QuestionEvent(u, "file_too_big", FALSE, recorded)
                 /\ UNCHANGED ai_calls
            ELSE /\ user_data' = [user_data EXCEPT ![u] =
                        AfterAiCall([ud EXCEPT !.gemini_requests = recorded], r)]
                 /\ ev' = QuestionEvent(u, AiOutcome(r, TRUE), TRUE, recorded)
                 /\ NoteAiCall(u)
       ELSE /\ user_data' = [user_data EXCEPT ![u] =
                   AfterAiCall([ud EXCEPT !.gemini_requests = recorded], r)]
            /\ ev' = QuestionEvent(u, AiOutcome(r, FALSE), TRUE, recorded)
            /\ NoteAiCall(u)

(***************************************************************************)
(* Cards (send_person_card, generate_person_card_markup)                   *)
(***************************************************************************)

\* Mutant: the pager wraps around at both ends.
generate_person_card_markup_Wraps(matches, current_index) ==
    [ prev |-> IF current_index > 0 THEN Some(current_index - 1)
               ELSE Some(Len(matches) - 1),
      next |-> IF current_index < Len(matches) - 1
               THEN Some(current_index + 1) ELSE Some(0),
      select |-> current_index ]

\* The navigation buttons of the card at current_index: the target index of
\* each button that is offered.
generate_person_card_markup(matches, current_index) ==
    [ prev |-> IF current_index > 0 THEN Some(current_index - 1) ELSE NONE,
      next |-> IF current_index < Len(matches) - 1
               THEN Some(current_index + 1) ELSE NONE,
      select |-> current_index ]

\* 0 <= index < len(matches)
ValidIndex(matches, index) == 0 <= index /\ index < Len(matches)

\* Mutant: storing a card drops the document and the AI mode.
StoreCard_LeavesAiMode(ud, matches, index, query_text) ==
    [ud EXCEPT !.current_matches = matches,
               !.current_match_index = Some(index),
               !.last_query = query_text,
               !.pdf_context_path = NONE,
               !.mode = Some(MODE_SEARCH)]

\* The three keys send_person_card stores for a card it shows.
StoreCard(ud, matches, index, query_text) ==
    [ud EXCEPT !.current_matches = matches,
               !.current_match_index = Some(index),
               !.last_query = query_text]

\* Mutant: an index past either end is clamped to the nearest card.
send_person_card_Clamps(u, op, matches, index, query_text) ==
    LET clamped == IF index < 0 THEN 0
                   ELSE IF index >= Len(matches) THEN Len(matches) - 1
                   ELSE index
    IN /\ user_data' = [user_data EXCEPT
               ![u] = StoreCard(@, matches, clamped, query_text)]
       /\ ev' = Event(u, op, "card", FALSE)

\* Mutant: the card is stored without the test of the index.
send_person_card_Unchecked(u, op, matches, index, query_text) ==
    /\ user_data' = [user_data EXCEPT
            ![u] = StoreCard(@, matches, index, query_text)]
    /\ ev' = Event(u, op, "card", FALSE)

send_person_card(u, op, matches, index, query_text) ==
    IF ~ValidIndex(matches, index)
    THEN /\ ev' = Event(u, op, "invalid_index", FALSE)
         /\ UNCHANGED user_data
    ELSE /\ user_data' = [user_data EXCEPT
                ![u] = StoreCard(@, matches, index, query_text)]
         /\ ev' = Event(u, op, "card", FALSE)


(***************************************************************************)
(* Handlers.  The application handles one update at a time, so each        *)
(* handler is one step.                                                    *)
(***************************************************************************)

\* Mutant: /start and /cancel leave the document in place.
PopContextAndMatches_KeepContext(ud) ==
    [ud EXCEPT !.current_matches = NONE,
               !.current_match_index = NONE,
               !.mode = Some(MODE_SEARCH)]

\* context.user_data.pop(key, None) for the keys /start and /cancel drop
PopContextAndMatches(ud) ==
    [ud EXCEPT !.pdf_context_path = NONE,
               !.current_matches = NONE,
               !.current_match_index = NONE,
               !.mode = Some(MODE_SEARCH)]

\* /start
start(u) ==
    /\ user_data' = [user_data EXCEPT ![u] = PopContextAndMatches(@)]
    /\ ev' = Event(u, "start", "menu", FALSE)
    /\ UNCHANGED <<pdf_map, id_counter, disk, now, GEMINI_ENABLED, ai_calls>>

\* Mutant: /search stores the AI mode.
PopContext_SetsAiMode(ud) ==
    [ud EXCEPT !.pdf_context_path = NONE, !.mode = Some(MODE_AI)]

\* Mutant: /search drops the document and leaves the mode as it is.
PopContext_KeepsMode(ud) ==
    [ud EXCEPT !.pdf_context_path = NONE]

\* the keys /search drops
PopContext(ud) ==
    [ud EXCEPT !.pdf_context_path = NONE, !.mode = Some(MODE_SEARCH)]

\* /search
search_command(u) ==
    /\ user_data' = [user_data EXCEPT ![u] = PopContext(@)]
    /\ ev' = Event(u, "search_command", "search_mode", FALSE)
    /\ UNCHANGED <<pdf_map, id_counter, disk, now, GEMINI_ENABLED, ai_calls>>

\* /cancel
cancel_command(u) ==
    /\ user_data' = [user_data EXCEPT ![u] = PopContextAndMatches(@)]
    /\ ev' = Event(u, "cancel_command", "cancelled", FALSE)
    /\ UNCHANGED <<pdf_map, id_counter, disk, now, GEMINI_ENABLED, ai_calls>>

\* find_folder_matches(text.strip(), PERSON_FOLDERS) for the texts sent,
\* computed once.
FoundFolders ==
    [text \in Texts |-> find_folder_matches(Strip(text), PERSON_FOLDERS)]

\* Mutant: the folder of a single match is sent and also stored as a match
\* list.
handle_text_message_StoresSingle(u, text) ==
    LET query == Strip(text)
        found_folders == FoundFolders[text]
    IN IF CurrentMode(u) = MODE_AI
       THEN /\ \E r \in AiResults : gemini_query(u, r)
            /\ UNCHANGED <<pdf_map, id_counter, disk, now, GEMINI_ENABLED>>
       ELSE IF Len(found_folders) = 1
       THEN /\ \E nosize \in NoSizeChoices(found_folders[1]) :
                    send_folder_contents(found_folders[1], nosize)
            /\ user_data' = [user_data EXCEPT
                   ![u] = StoreCard(@, found_folders, 0, query)]
            /\ ev' = Event(u, "search", "one_folder", FALSE)
            /\ UNCHANGED <<disk, now, GEMINI_ENABLED, ai_calls>>
       ELSE IF Len(found_folders) > 1
       THEN /\ send_person_card(u, "search", found_folders, 0, query)
            /\ UNCHANGED <<pdf_map, id_counter, disk, now, GEMINI_ENABLED, ai_calls>>
       ELSE /\ ev' = Event(u, "search", "not_found", FALSE)
            /\ UNCHANGED <<user_data, pdf_map, id_counter, disk, now,
                           GEMINI_ENABLED, ai_calls>>

\* A text message that is not a command.
handle_text_message(u, text) ==
    LET query == Strip(text)
        found_folders == FoundFolders[text]
    IN IF CurrentMode(u) = MODE_AI
       THEN /\ \E r \in AiResults : gemini_query(u, r)
            /\ UNCHANGED <<pdf_map, id_counter, disk, now, GEMINI_ENABLED>>
       ELSE IF PERSON_FOLDERS = <<>>
       THEN /\ ev' = Event(u, "search", "no_folders", FALSE)
            /\ UNCHANGED <<user_data, pdf_map, id_counter, disk, now,
                           GEMINI_ENABLED, ai_calls>>
       ELSE IF Len(found_folders) = 1
       THEN /\ \E nosize \in NoSizeChoices(found_folders[1]) :
                    send_folder_contents(found_folders[1], nosize)
            /\ ev' = Event(u, "search", "one_folder", FALSE)
            /\ UNCHANGED <<user_data, disk, now, GEMINI_ENABLED, ai_calls>>
       ELSE IF Len(found_folders) > 1
       THEN /\ send_person_card(u, "search", found_folders, 0, query)
            /\ UNCHANGED <<pdf_map, id_counter, disk, now, GEMINI_ENABLED, ai_calls>>
       ELSE /\ ev' = Event(u, "search", "not_found", FALSE)
            /\ UNCHANGED <<user_data, pdf_map, id_counter, disk, now,
                           GEMINI_ENABLED, ai_calls>>

\* button 'toggle_broadcast'
\* Mutant: the toggle button switches the broadcast on.
toggle_broadcast_SwitchesOn(u) ==
    /\ user_data' = [user_data EXCEPT ![u].send_birthday_broadcast = Some(TRUE)]
    /\ ev' = Event(u, "toggle_broadcast", "settings", FALSE)
    /\ UNCHANGED <<pdf_map, id_counter, disk, now, GEMINI_ENABLED, ai_calls>>

toggle_broadcast(u) ==
    /\ user_data' = [user_data EXCEPT
            ![u].send_birthday_broadcast = Some(~get_user_broadcast_status(u))]
    /\ ev' = Event(u, "toggle_broadcast", "settings", FALSE)
    /\ UNCHANGED <<pdf_map, id_counter, disk, now, GEMINI_ENABLED, ai_calls>>

\* buttons that only show a menu or a list: show_surnames, settings,
\* back_to_start, birthdays
menu_button(u) ==
    /\ ev' = Event(u, "menu_button", "menu", FALSE)
    /\ UNCHANGED <<user_data, pdf_map, id_counter, disk, now, GEMINI_ENABLED,
                   ai_calls>>

\* bot_data.get('pdf_map', {}).get(pdf_id)
\* Mutant: an unknown id resolves to the first document of the catalog.
LookupHandle_Default(pdf_id) ==
    IF pdf_id \in DOMAIN pdf_map THEN pdf_map[pdf_id] ELSE FullPath(FileAbX)

LookupHandle(pdf_id) ==
    IF pdf_id \in DOMAIN pdf_map THEN pdf_map[pdf_id] ELSE NONE

\* Mutant: the accepted button stores the document and not the mode.
EnterAiMode_PathOnly(ud, pdf_path) ==
    [ud EXCEPT !.pdf_context_path = pdf_path]

\* The session after an accepted 'ask_ai' button.
EnterAiMode(ud, pdf_path) ==
    [ud EXCEPT !.pdf_context_path = pdf_path, !.mode = Some(MODE_AI)]

\* button 'ask_ai|<id>'; an id that is no integer is answered with an error
ask_ai(u, pdf_id) ==
    LET pdf_path == LookupHandle(pdf_id)
    IN /\ IF pdf_path = NONE \/ pdf_path \notin disk
          THEN /\ ev' = Event(u, "ask_ai", "context_not_found", FALSE)
               /\ UNCHANGED user_data
          ELSE /\ user_data' = [user_data EXCEPT ![u] = EnterAiMode(@, pdf_path)]
               /\ ev' = Event(u, "ask_ai", "ai_mode", FALSE)
       /\ UNCHANGED <<pdf_map, id_counter, disk, now, GEMINI_ENABLED, ai_calls>>

ask_ai_bad_id(u) ==
    /\ ev' = Event(u, "ask_ai", "bad_id_format", FALSE)
    /\ UNCHANGED <<user_data, pdf_map, id_counter, disk, now, GEMINI_ENABLED,
                   ai_calls>>

\* button 'card:prev:<i>' / 'card:next:<i>'
card_button(u, new_index) ==
    LET matches == user_data[u].current_matches
        last_query == user_data[u].last_query
    IN /\ IF matches # NONE
          THEN send_person_card(u, "card_button", matches, new_index, last_query)
          ELSE /\ ev' = Event(u, "card_button", "session_expired", FALSE)
               /\ UNCHANGED user_data
       /\ UNCHANGED <<pdf_map, id_counter, disk, now, GEMINI_ENABLED, ai_calls>>

\* Mutant: the select button leaves the match list in the session.
PopPagination_KeepsMatches(ud) ==
    [ud EXCEPT !.current_match_index = NONE, !.last_query = NONE]

\* the pagination keys the select button drops
PopPagination(ud) ==
    [ud EXCEPT !.current_matches = NONE,
               !.current_match_index = NONE,
               !.last_query = NONE]

\* button 'select_folder:<i>'
select_folder(u, selected_index) ==
    LET matches == user_data[u].current_matches
    IN IF matches = NONE \/ ~ValidIndex(matches, selected_index)
       THEN /\ ev' = Event(u, "select_folder", "expired_or_invalid", FALSE)
            /\ UNCHANGED <<user_data, pdf_map, id_counter, disk, now,
                           GEMINI_ENABLED, ai_calls>>
       ELSE /\ user_data' = [user_data EXCEPT ![u] = PopPagination(@)]
            /\ \E nosize \in NoSizeChoices(matches[selected_index + 1]) :
                    send_folder_contents(matches[selected_index + 1], nosize)
            /\ ev' = Event(u, "select_folder", "folder_sent", FALSE)
            /\ UNCHANGED <<disk, now, GEMINI_ENABLED, ai_calls>>

\* button 'full_report:<id>' of a birthday message: the folder the id
\* resolves to is sent, or the link is answered as expired.
full_report(u, found) ==
    /\ IF found = NONE
       THEN /\ ev' = Event(u, "full_report", "link_expired", FALSE)
            /\ UNCHANGED <<pdf_map, id_counter>>
       ELSE /\ \E nosize \in NoSizeChoices(found[1]) :
                    send_folder_contents(found[1], nosize)
            /\ ev' = Event(u, "full_report", "folder_sent", FALSE)
    /\ UNCHANGED <<user_data, disk, now, GEMINI_ENABLED, ai_calls>>

\* What a report link resolves to: nothing, or a folder of the catalog.
ReportTargets == {NONE} \cup {Some(f) : f \in CatalogFolders}

(***************************************************************************)
(* Environment                                                             *)
(***************************************************************************)

\* Time passes.  The history of AI calls drops what left the window.
Tick ==
    \E d \in {WINDOW \div 2, WINDOW} :
        /\ now + d <= MaxTime
        /\ now' = now + d
        /\ ai_calls' = [u \in Users |->
               SelectSeq(ai_calls[u], LAMBDA t : now + d - t < WINDOW)]
        /\ ev' = [NoEvent EXCEPT !.op = "tick"]
        /\ UNCHANGED <<user_data, pdf_map, id_counter, disk, GEMINI_ENABLED>>

\* The PDF files of the catalog.
CatalogPdfFiles == {p \in CatalogFiles : HasExt(p, ExtPdf)}

\* A file of the catalog is deleted from the disk.
DeleteFile ==
    \E f \in disk \cap CatalogPdfFiles :
        /\ Cardinality(CatalogFiles \ disk) < MaxDeleted
        /\ disk' = disk \ {f}
        /\ ev' = [NoEvent EXCEPT !.op = "delete_file"]
        /\ UNCHANGED <<user_data, pdf_map, id_counter, now, GEMINI_ENABLED,
                       ai_calls>>

\* The indices a callback can carry.
Indices == (0 - 1)..Len(PERSON_FOLDERS)

\* The session of one user under every handler, at one instant.
SessionUsers == {1}

Next ==
    \/ \E u \in SessionUsers : start(u)
    \/ \E u \in SessionUsers : search_command(u)
    \/ \E u \in SessionUsers : cancel_command(u)
    \/ \E u \in SessionUsers, text \in Texts : handle_text_message(u, text)
    \/ \E u \in SessionUsers : toggle_broadcast(u)
    \/ \E u \in SessionUsers : menu_button(u)
    \/ \E u \in SessionUsers, pdf_id \in 0..MaxIds : ask_ai(u, pdf_id)
    \/ \E u \in SessionUsers : ask_ai_bad_id(u)
    \/ \E u \in SessionUsers, i \in Indices : card_button(u, i)
    \/ \E u \in SessionUsers, i \in Indices : select_folder(u, i)
    \/ \E u \in SessionUsers, found \in ReportTargets : full_report(u, found)
    \/ DeleteFile

Spec == Init /\ [][Next]_vars


(***************************************************************************)
(* The rate limiter over time, for two users.  The run starts after one    *)
(* search has sent the two documents of a folder (a state Spec reaches),   *)
(* with the AI capability enabled; the users then pick documents and ask   *)
(* questions while time passes.                                            *)
(***************************************************************************)
InitRate ==
    /\ user_data = [u \in Users |-> EmptyUserData]
    /\ pdf_map = AllocateAll(<<>>, 0, CatalogPdfs[FolderAb]).map
    /\ id_counter = AllocateAll(<<>>, 0, CatalogPdfs[FolderAb]).counter
    /\ disk = CatalogFiles
    /\ now = 0
    /\ GEMINI_ENABLED = TRUE
    /\ ai_calls = [u \in Users |-> <<>>]
    /\ ev = NoEvent

\* A text message of a user who is in AI mode: a question.
ask_question(u, text) ==
    /\ CurrentMode(u) = MODE_AI
    /\ handle_text_message(u, text)

NextRate ==
    \/ \E u \in Users, pdf_id \in 0..MaxIds : ask_ai(u, pdf_id)
    \/ \E u \in Users : ask_question(u, <<"q">>)
    \/ Tick

SpecRate == InitRate /\ [][NextRate]_vars


(***************************************************************************)
(* The functions of the program on their own.  The call and its result are *)
(* kept in ev; the state of the bot is not touched.                        *)
(***************************************************************************)
PureInit ==
    /\ user_data = [u \in Users |-> EmptyUserData]
    /\ pdf_map = <<>>
    /\ id_counter = 0
    /\ disk = CatalogFiles
    /\ now = 0
    /\ GEMINI_ENABLED = TRUE
    /\ ai_calls = [u \in Users |-> <<>>]

PureIdle ==
    UNCHANGED <<user_data, pdf_map, id_counter, disk, now, GEMINI_ENABLED,
                ai_calls>>

\* The longest match list a card is drawn for.
MaxMatches == 3

\* The match lists: the non-empty lists of folders up to that length.
MatchLists == UNION {[1..n -> CatalogFolders] : n \in 1..MaxMatches}

\* A match list and a valid index into it.
InitCard ==
    /\ PureInit
    /\ ev \in UNION {{[op |-> "input", matches |-> m, index |-> i] :
                        i \in 0..(Len(m) - 1)} : m \in MatchLists}

\* markup = generate_person_card_markup(matches, index)
call_generate_person_card_markup ==
    /\ ev.op = "input"
    /\ ev' = [op |-> "generate_person_card_markup",
              matches |-> ev.matches,
              index |-> ev.index,
              markup |-> generate_person_card_markup(ev.matches, ev.index)]
    /\ PureIdle

NextCard == call_generate_person_card_markup

SpecCard == InitCard /\ [][NextCard]_vars

\* The most candidates a folder offers, and the largest size of one, in MB.
MaxCandidates == 3
MaxSizeMB == 3

\* n candidates, named by their place in the folder.
Candidates(n) == [i \in 1..n |-> i]

\* The candidates of a folder, a size for each, and those whose size cannot
\* be read.
InitBudget ==
    /\ PureInit
    /\ ev \in UNION {{[op |-> "input", pdfs |-> Candidates(n),
                       getsize |-> g, nosize |-> ns] :
                          g \in [1..n -> 0..MaxSizeMB], ns \in SUBSET (1..n)} :
                      n \in 0..MaxCandidates}

\* the loop 'for pdf_path in pdf_files_to_send' of send_folder_contents
call_budget_loop ==
    /\ ev.op = "input"
    /\ ev' = [op |-> "budget_loop", pdfs |-> ev.pdfs, getsize |-> ev.getsize,
              nosize |-> ev.nosize,
              result |-> BudgetLoopSized(ev.pdfs, ev.getsize, ev.nosize,
                                         <<>>, 0)]
    /\ PureIdle

NextBudget == call_budget_loop

SpecBudget == InitBudget /\ [][NextBudget]_vars

\* The longest query and the longest folder list the matcher is given.
MaxQueryLen == 3
MaxFolders == 2

\* The characters of a query.
QueryChars == {"a", "c", "B", " ", "_"}

\* The queries: every text of these characters up to that length.
Queries == UNION {[1..n -> QueryChars] : n \in 0..MaxQueryLen}

\* The folders of the lists: two of the catalog and one whose name has an
\* underscore and a capital.
FolderA_B == JoinPath(JoinPath(BASE_FOLDER_NAME, <<"g">>), <<"a", "_", "B">>)
FolderPool == {FolderAb, FolderAc, FolderA_B}
FolderLists == UNION {[1..n -> FolderPool] : n \in 0..MaxFolders}

InitMatch ==
    /\ PureInit
    /\ ev \in {[op |-> "input", query |-> q, folders |-> fl] :
                  q \in Queries, fl \in FolderLists}

\* found_folders = find_folder_matches(query, folders)
call_find_folder_matches ==
    /\ ev.op = "input"
    /\ ev' = [op |-> "find_folder_matches", query |-> ev.query,
              folders |-> ev.folders,
              result |-> find_folder_matches(ev.query, ev.folders)]
    /\ PureIdle

NextMatch == call_find_folder_matches

SpecMatch == InitMatch /\ [][NextMatch]_vars

(***************************************************************************)
(* send_folder_contents of several users at once.  A coroutine runs until  *)
(* its next await, so a step of a user is the code between two awaits;     *)
(* ev.procs[u] is the position of the user's handler: the documents still  *)
(* to send, the counter as it was at the last await (read_id), and the     *)
(* handles the handler has allocated (got).                                *)
(***************************************************************************)
IdleProc == [pc |-> "idle", docs |-> <<>>, read_id |-> 0, got |-> <<>>]

InitSend ==
    /\ PureInit
    /\ ev = [op |-> "send", procs |-> [u \in Users |-> IdleProc]]

SetProc(u, proc) == ev' = [ev EXCEPT !.procs[u] = proc]

\* Lines 573-680: the files of the folder are collected and the budget loop
\* has chosen files_to_send_final; the handler is at the head of the loop
\* over them.
begin_send(u, folder, nosize) ==
    /\ ev.procs[u].pc = "idle"
    /\ SetProc(u, [ev.procs[u] EXCEPT
            !.pc = "loop",
            !.docs = FolderContents(folder, disk, nosize).documents,
            !.read_id = id_counter])
    /\ UNCHANGED <<pdf_map, id_counter>>
    /\ UNCHANGED <<user_data, disk, now, GEMINI_ENABLED, ai_calls>>

\* Mutant: the counter is read before the await and used after it.
allocate_handle_StaleRead(u) ==
    LET proc == ev.procs[u]
        current_id == proc.read_id
    IN /\ proc.pc = "loop" /\ proc.docs # <<>>
       /\ id_counter < MaxIds
       /\ pdf_map' = [i \in DOMAIN pdf_map \cup {current_id} |->
                         IF i = current_id THEN proc.docs[1] ELSE pdf_map[i]]
       /\ id_counter' = current_id + 1
       /\ SetProc(u, [proc EXCEPT
               !.pc = "await_send_document",
               !.got = Append(@, <<current_id, proc.docs[1]>>)])
       /\ UNCHANGED <<user_data, disk, now, GEMINI_ENABLED, ai_calls>>

\* Lines 685-706: the counter is read, the path stored under it, the counter
\* written; the handler then awaits send_document.
allocate_handle(u) ==
    LET proc == ev.procs[u]
        current_id == id_counter
        a == AllocateAll(pdf_map, current_id, <<proc.docs[1]>>)
    IN /\ proc.pc = "loop" /\ proc.docs # <<>>
       /\ id_counter < MaxIds
       /\ pdf_map' = a.map
       /\ id_counter' = a.counter
       /\ SetProc(u, [proc EXCEPT
               !.pc = "await_send_document",
               !.got = Append(@, <<current_id, proc.docs[1]>>)])
       /\ UNCHANGED <<user_data, disk, now, GEMINI_ENABLED, ai_calls>>

\* Line 707 returns: the next file of the loop, or the end of the handler.
resume_send(u) ==
    LET proc == ev.procs[u]
    IN /\ proc.pc = "await_send_document"
       /\ SetProc(u, [proc EXCEPT
               !.pc = IF Len(proc.docs) > 1 THEN "loop" ELSE "idle",
               !.docs = Tail(proc.docs),
               !.read_id = id_counter])
       /\ UNCHANGED <<pdf_map, id_counter>>
       /\ UNCHANGED <<user_data, disk, now, GEMINI_ENABLED, ai_calls>>

\* A folder without documents to send ends the handler at once.
end_send(u) ==
    /\ ev.procs[u].pc = "loop" /\ ev.procs[u].docs = <<>>
    /\ SetProc(u, [ev.procs[u] EXCEPT !.pc = "idle"])
    /\ UNCHANGED <<pdf_map, id_counter>>
    /\ UNCHANGED <<user_data, disk, now, GEMINI_ENABLED, ai_calls>>

NextSend ==
    \/ \E u \in Users, folder \in CatalogFolders :
          \E nosize \in NoSizeChoices(folder) : begin_send(u, folder, nosize)
    \/ \E u \in Users : allocate_handle(u)
    \/ \E u \in Users : resume_send(u)
    \/ \E u \in Users : end_send(u)

SpecSend == InitSend /\ [][NextSend]_vars

(***************************************************************************)
(* The index build: load_file_paths and load_and_extract_person_folders,   *)
(* with os.path of a POSIX platform.                                       *)
(***************************************************************************)

\* The characters of the model in code point order, as sorted() compares
\* them.  "Prochee" stands for the Cyrillic default category of line 369.
CodePoints ==
    <<" ", "-", ".", "/">> \o UpperChars \o <<"\\", "_">> \o LowerChars \o
    <<"Prochee", "emdash">>

Ord(c) == CHOOSE i \in 1..Len(CodePoints) : CodePoints[i] = c

\* a < b for strings
RECURSIVE TextLess(_, _)
TextLess(a, b) ==
    IF a = <<>> THEN b # <<>>
    ELSE IF b = <<>> THEN FALSE
    ELSE IF a[1] = b[1] THEN TextLess(Tail(a), Tail(b))
    ELSE Ord(a[1]) < Ord(b[1])

\* sorted(list(S)) for a set of strings
RECURSIVE Sorted(_)
Sorted(S) ==
    IF S = {} THEN <<>>
    ELSE LET least == CHOOSE x \in S : \A y \in S \ {x} : TextLess(x, y)
         IN <<least>> \o Sorted(S \ {least})

UpperChar(c) ==
    IF \E i \in 1..Len(LowerChars) : LowerChars[i] = c
    THEN UpperChars[CHOOSE i \in 1..Len(LowerChars) : LowerChars[i] = c]
    ELSE c

\* str.capitalize()
Capitalize(s) ==
    IF s = <<>> THEN s ELSE <<UpperChar(s[1])>> \o Lower(Tail(s))

\* s.split(sep) for the separators seps: the pieces between them, empty
\* pieces included
RECURSIVE SplitOn(_, _)
SplitOn(s, seps) ==
    IF \E i \in 1..Len(s) : s[i] \in seps
    THEN LET first == CHOOSE i \in 1..Len(s) :
                          s[i] \in seps /\ \A j \in 1..(i - 1) : s[j] \notin seps
         IN <<SubSeq(s, 1, first - 1)>> \o SplitOn(DropFirst(s, first), seps)
    ELSE <<s>>

\* sep.join(parts)
RECURSIVE JoinWith(_, _)
JoinWith(parts, sep) ==
    IF parts = <<>> THEN <<>>
    ELSE IF Len(parts) = 1 THEN parts[1]
    ELSE parts[1] \o <<sep>> \o JoinWith(Tail(parts), sep)

\* the component loop of posixpath.normpath
RECURSIVE NormComps(_, _, _)
NormComps(comps, new_comps, initial_slashes) ==
    IF comps = <<>> THEN new_comps
    ELSE LET comp == comps[1]
             up == <<".", ".">>
         IN NormComps(Tail(comps),
                IF comp = <<>> \/ comp = <<".">> THEN new_comps
                ELSE IF \/ comp # up
                        \/ (initial_slashes = 0 /\ new_comps = <<>>)
                        \/ (new_comps # <<>> /\ new_comps[Len(new_comps)] = up)
                     THEN Append(new_comps, comp)
                ELSE IF new_comps # <<>>
                     THEN SubSeq(new_comps, 1, Len(new_comps) - 1)
                ELSE new_comps,
                initial_slashes)

\* os.path.normpath
normpath(path) ==
    IF path = <<>> THEN <<".">>
    ELSE LET initial_slashes ==
                 IF path[1] # Sep THEN 0
                 ELSE IF StartsWith(path, <<Sep, Sep>>)
                         /\ ~StartsWith(path, <<Sep, Sep, Sep>>) THEN 2
                 ELSE 1
             joined == [i \in 1..initial_slashes |-> Sep] \o
                       JoinWith(NormComps(SplitOn(path, {Sep}), <<>>,
                                          initial_slashes), Sep)
         IN IF joined = <<>> THEN <<".">> ELSE joined

\* s.index(w): the 0-based place of the first occurrence of w in s, -1 for
\* the ValueError
IndexOf(s, w) ==
    IF Contains(s, w)
    THEN CHOOSE i \in 0..(Len(s) - Len(w)) :
             /\ SubSeq(s, i + 1, i + Len(w)) = w
             /\ \A j \in 0..(i - 1) : SubSeq(s, j + 1, j + Len(w)) # w
    ELSE 0 - 1

\* s.rstrip('/')
RECURSIVE RStripSep(_)
RStripSep(s) ==
    IF s # <<>> /\ s[Len(s)] = Sep THEN RStripSep(SubSeq(s, 1, Len(s) - 1))
    ELSE s

\* os.path.dirname
Dirname(p) ==
    LET head == SubSeq(p, 1, LastSep(p))
    IN IF head # <<>> /\ (\E i \in 1..Len(head) : head[i] # Sep)
       THEN RStripSep(head) ELSE head

\* The lines of the path list file that are kept: stripped and not empty.
RECURSIVE StrippedLines(_)
StrippedLines(lines) ==
    IF lines = <<>> THEN <<>>
    ELSE (IF Strip(lines[1]) # <<>> THEN <<Strip(lines[1])>> ELSE <<>>) \o
         StrippedLines(Tail(lines))

\* The loop of load_file_paths: each path is normalised and cut at the
\* first place the base folder name occurs, case ignored; a path without it
\* is dropped.
RECURSIVE RelativePaths(_)
RelativePaths(paths) ==
    IF paths = <<>> THEN <<>>
    ELSE LET normalized_path == normpath(paths[1])
             base_index == IndexOf(Lower(normalized_path),
                                   Lower(BASE_FOLDER_NAME))
         IN (IF base_index >= 0
             THEN <<DropFirst(normalized_path, base_index)>> ELSE <<>>) \o
            RelativePaths(Tail(paths))

load_file_paths(lines) == RelativePaths(StrippedLines(lines))

\* The category of a path: the part after the first part that is the base
\* folder, when it holds no dot.
CategoryOf(path) ==
    LET parts == SplitOn(path, {"/", "\\"})
        base_index_list == {i \in 1..Len(parts) :
                               Lower(parts[i]) = Lower(BASE_FOLDER_NAME)}
        first == CHOOSE i \in base_index_list :
                     \A j \in base_index_list : i <= j
    IN IF base_index_list # {} /\ first + 1 <= Len(parts)
          /\ ~Contains(parts[first + 1], <<".">>)
       THEN parts[first + 1]
       ELSE <<"Prochee">>

\* Mutant: the folder of a path is kept in lower case.
PersonFolderOf_Lower(path) == Lower(Dirname(path))

\* person_folder_path of a path of the catalog
PersonFolderOf(path) == Dirname(path)

\* Mutant: every folder with a name is a person folder.
AcceptFolder_AnyNamed(person_folder_path) ==
    Basename(person_folder_path) # <<>>

\* The test of line 379.
AcceptFolder(person_folder_path) ==
    /\ Lower(person_folder_path) # Lower(BASE_FOLDER_NAME)
    /\ Basename(person_folder_path) # <<>>

\* The surname of a person folder, NONE when its cleaned name is empty.
SurnameOf(person_folder_path) ==
    LET clean_name == Strip(ReplaceUnderscore(
                          StripSherlockPrefix(Basename(person_folder_path))))
    IN IF clean_name # <<>>
       THEN Some(Capitalize(SplitWords(clean_name)[1])) ELSE NONE

\* temp_grouped_surnames[category_key].add(final_surname)
AddGrouped(temp, category_key, final_surname) ==
    [k \in DOMAIN temp \cup {category_key} |->
        (IF k \in DOMAIN temp THEN temp[k] ELSE {}) \cup
        (IF k = category_key THEN {final_surname} ELSE {})]

\* The loop of lines 365-393 over the paths of the catalog.
RECURSIVE ExtractLoop(_, _)
ExtractLoop(paths, acc) ==
    IF paths = <<>> THEN acc
    ELSE LET path == paths[1]
             person_folder_path == PersonFolderOf(path)
             surname == SurnameOf(person_folder_path)
         IN ExtractLoop(Tail(paths),
                IF ~AcceptFolder(person_folder_path) THEN acc
                ELSE [unique_person_folders |->
                          acc.unique_person_folders \cup {person_folder_path},
                      UNIQUE_SURNAMES |->
                          IF surname = NONE THEN acc.UNIQUE_SURNAMES
                          ELSE acc.UNIQUE_SURNAMES \cup {surname[1]},
                      temp_grouped_surnames |->
                          IF surname = NONE THEN acc.temp_grouped_surnames
                          ELSE AddGrouped(acc.temp_grouped_surnames,
                                          Capitalize(CategoryOf(path)),
                                          surname[1])])

\* Mutant: the groups of an earlier build are kept and extended.
FinalizeGrouped_NoClear(old, temp) ==
    [k \in DOMAIN old \cup DOMAIN temp |->
        (IF k \in DOMAIN old THEN old[k] ELSE <<>>) \o
        (IF k \in DOMAIN temp THEN Sorted(temp[k]) ELSE <<>>)]

\* Lines 395-397: GROUPED_SURNAMES is cleared and filled from the groups of
\* this build, each sorted.
FinalizeGrouped(old, temp) ==
    [k \in DOMAIN temp |-> Sorted(temp[k])]

\* The globals of lines 133-136 before the first build.
EmptyIndex ==
    [RELATIVE_FILE_PATHS |-> <<>>, PERSON_FOLDERS |-> <<>>,
     UNIQUE_SURNAMES |-> {}, GROUPED_SURNAMES |-> <<>>]

\* The globals after load_and_extract_person_folders has read the lines of
\* the path list, PERSON_FOLDERS being given its result (line 1566).
load_and_extract_person_folders(index, lines) ==
    LET paths == load_file_paths(lines)
        acc == ExtractLoop(paths,
                   [unique_person_folders |-> {},
                    UNIQUE_SURNAMES |-> index.UNIQUE_SURNAMES,
                    temp_grouped_surnames |-> <<>>])
    IN [RELATIVE_FILE_PATHS |-> paths,
        PERSON_FOLDERS |-> Sorted(acc.unique_person_folders),
        UNIQUE_SURNAMES |-> acc.UNIQUE_SURNAMES,
        GROUPED_SURNAMES |-> FinalizeGrouped(index.GROUPED_SURNAMES,
                                             acc.temp_grouped_surnames)]

\* The most parts of a raw path.
MaxSegments == 3

\* The path lists of the file: none, one raw path, or a raw path before or
\* after a path of the catalog.  A raw path is made of parts, an empty part
\* giving a leading, doubled or trailing separator.
RawLists(max_segments) ==
    LET Segments ==
            {<<"B">>, <<"b">>, <<"a", "b">>, <<"_">>,
             <<"S","h","e","r","l","o","c","k","_","c">>,
             <<"x", ".", "t">>, <<".", ".">>, <<>>, <<"a", "\\", "B">>}
        RawPaths ==
            {JoinWith(parts, Sep) :
                parts \in UNION {[1..n -> Segments] : n \in 1..max_segments}}
    IN {<<>>} \cup {<<p>> : p \in RawPaths}
       \cup {<<p, q>> : p \in RawPaths, q \in {FileAbX, FileAcTxt}}
       \cup {<<q, p>> : p \in RawPaths, q \in {FileAbX, FileAcTxt}}

\* How often the build is run.
MaxBuilds == 2

InitIndex ==
    /\ PureInit
    /\ ev \in {[op |-> "input", lines |-> l, builds |-> 0,
                before |-> EmptyIndex, index |-> EmptyIndex] :
                  l \in RawLists(MaxSegments)}

\* load_and_extract_person_folders(FILE_LIST_PATH), the file unchanged
call_load_and_extract_person_folders ==
    /\ ev.builds < MaxBuilds
    /\ ev' = [op |-> "load_and_extract_person_folders",
              lines |-> ev.lines,
              builds |-> ev.builds + 1,
              before |-> ev.index,
              index |-> load_and_extract_person_folders(ev.index, ev.lines)]
    /\ PureIdle

SpecIndex == InitIndex /\ [][call_load_and_extract_person_folders]_vars

\* The builds of a path list that changes between the calls: each call reads
\* a list of its own.
InitReload ==
    /\ PureInit
    /\ ev \in {[op |-> "input", lines |-> l, builds |-> 0,
                before |-> EmptyIndex, index |-> EmptyIndex] :
                  l \in RawLists(1)}

\* load_and_extract_person_folders(FILE_LIST_PATH), then the file is replaced
call_reload ==
    /\ ev.builds < MaxBuilds
    /\ \E next_lines \in RawLists(1) :
           ev' = [op |-> "load_and_extract_person_folders",
                  lines |-> next_lines,
                  builds |-> ev.builds + 1,
                  before |-> ev.index,
                  index |-> load_and_extract_person_folders(ev.index, ev.lines)]
    /\ PureIdle

SpecReload == InitReload /\ [][call_reload]_vars

(***************************************************************************)
(* The summary file of a folder, as the card and the folder scan find it.  *)
(***************************************************************************)

\* get_summary_from_folder, lines 270-287: the loop over the catalog stops
\* at the first TXT of the folder whose name matches; NONE when there is
\* none.
RECURSIVE get_summary_from_folder(_, _)
get_summary_from_folder(paths, folder_path) ==
    IF paths = <<>> THEN NONE
    ELSE IF InFolder(paths[1], folder_path) /\ NamesMatch(paths[1], folder_path)
            /\ HasExt(paths[1], ExtTxt)
         THEN FullPath(paths[1])
    ELSE get_summary_from_folder(Tail(paths), folder_path)

\* The longest catalog a summary is looked up in.
MaxCatalog == 3

\* A folder and a catalog: up to MaxCatalog paths, among them three TXT
\* files of the folder B/g/ab, two of them with a matching name.
InitSummary ==
    LET Pool == {FileAbTxt, FileAbX, FileAdN,
                 JoinPath(FolderAb, <<"a", ".", "t", "x", "t">>),
                 JoinPath(FolderAb, <<"z", ".", "t", "x", "t">>)}
    IN /\ PureInit
       /\ ev \in {[op |-> "input", folder |-> f, paths |-> l] :
                    f \in {FolderAb, FolderAd},
                    l \in UNION {[1..n -> Pool] : n \in 0..MaxCatalog}}

\* The summary file of the card (send_person_card, line 460) and the one of
\* the folder scan of send_folder_contents (lines 573-588).
call_summaries ==
    /\ ev.op = "input"
    /\ ev' = [op |-> "summaries", folder |-> ev.folder, paths |-> ev.paths,
              card |-> get_summary_from_folder(ev.paths, ev.folder),
              full |-> FolderTxt(ev.paths, ev.folder, NONE)]
    /\ PureIdle

SpecSummary == InitSummary /\ [][call_summaries]_vars

(***************************************************************************)
(* Access gating: the decorator restricted_access around the handlers, and *)
(* the admin commands.  ev.bot_data holds the keys of context.bot_data the *)
(* whitelist code reads and writes.                                        *)
(***************************************************************************)

\* The id of the main administrator (environment variable MAIN_ADMIN_ID).
MAIN_ADMIN_ID == 1

\* main(), lines 1588-1606, on a first start: bot_data['whitelist'] is the
\* whitelist of config.json and the main administrator.
InitAccess ==
    /\ PureInit
    /\ ev \in {[u |-> 0, op |-> "main", out |-> "",
                bot_data |-> [whitelist |-> initial \cup {MAIN_ADMIN_ID}]] :
                  initial \in SUBSET Users}

\* The wrapper of restricted_access around a handler body: the list is read
\* from bot_data under the key 'WHITELISTED_USER_IDS' (line 187), an empty
\* list admits every caller, and a caller who is not admitted is answered
\* with the refusal.
restricted_access(u, entry, body) ==
    LET whitelist == IF "WHITELISTED_USER_IDS" \in DOMAIN ev.bot_data
                     THEN ev.bot_data["WHITELISTED_USER_IDS"] ELSE {}
    IN IF whitelist = {} \/ u \in whitelist
       THEN /\ body
            /\ ev' = [ev EXCEPT !.u = u, !.op = entry, !.out = "handled"]
            /\ UNCHANGED <<disk, now, GEMINI_ENABLED, ai_calls>>
       ELSE /\ ev' = [ev EXCEPT !.u = u, !.op = entry, !.out = "denied"]
            /\ UNCHANGED <<user_data, pdf_map, id_counter>>
            /\ UNCHANGED <<disk, now, GEMINI_ENABLED, ai_calls>>

\* /start, /search and /cancel behind the decorator
guarded_command(u) ==
    \/ restricted_access(u, "start",
          /\ user_data' = [user_data EXCEPT ![u] = PopContextAndMatches(@)]
          /\ UNCHANGED <<pdf_map, id_counter>>)
    \/ restricted_access(u, "search_command",
          /\ user_data' = [user_data EXCEPT ![u] = PopContext(@)]
          /\ UNCHANGED <<pdf_map, id_counter>>)
    \/ restricted_access(u, "cancel_command",
          /\ user_data' = [user_data EXCEPT ![u] = PopContextAndMatches(@)]
          /\ UNCHANGED <<pdf_map, id_counter>>)

\* a text message behind the decorator: a search that finds one folder and
\* sends it
guarded_text_message(u) ==
    \E text \in Texts :
        /\ Len(FoundFolders[text]) = 1
        /\ \E nosize \in NoSizeChoices(FoundFolders[text][1]) :
              restricted_access(u, "handle_text_message",
                 /\ send_folder_contents(FoundFolders[text][1], nosize)
                 /\ UNCHANGED user_data)

\* a button behind the decorator: the broadcast toggle of the settings
guarded_button(u) ==
    restricted_access(u, "button_handler",
       /\ user_data' = [user_data EXCEPT
             ![u].send_birthday_broadcast = Some(~get_user_broadcast_status(u))]
       /\ UNCHANGED <<pdf_map, id_counter>>)

\* /add_admin <id> and /remove_admin <id>, behind is_main_admin
admin_command(u, add, id) ==
    /\ ev' = IF u # MAIN_ADMIN_ID
             THEN [ev EXCEPT !.u = u, !.op = "admin_command", !.out = "no_rights"]
             ELSE IF add
             THEN [ev EXCEPT !.u = u, !.op = "admin_command", !.out = "added",
                             !.bot_data.whitelist = @ \cup {id}]
             ELSE IF id = MAIN_ADMIN_ID
             THEN [ev EXCEPT !.u = u, !.op = "admin_command", !.out = "kept"]
             ELSE [ev EXCEPT !.u = u, !.op = "admin_command", !.out = "removed",
                             !.bot_data.whitelist = @ \ {id}]
    /\ PureIdle

NextAccess ==
    \/ \E u \in Users : guarded_command(u)
    \/ \E u \in Users : guarded_text_message(u)
    \/ \E u \in Users : guarded_button(u)
    \/ \E u \in Users, add \in BOOLEAN, id \in Users : admin_command(u, add, id)

SpecAccess == InitAccess /\ [][NextAccess]_vars

(***************************************************************************)
(* The pager with the card messages of the chat.  A button can be pressed   *)
(* only while a message shows it: ev.messages is the set of markups of the *)
(* card messages that still have their buttons.  ev.folder is the folder a *)
(* select button resolved and ev.at_cursor the folder at the stored index  *)
(* when the button was pressed.                                            *)
(***************************************************************************)
InitPager ==
    /\ PureInit
    /\ ev = [u |-> 0, op |-> "init", out |-> "", messages |-> {},
             folder |-> NONE, at_cursor |-> NONE]

PagerEvent(u, op, out, messages) ==
    [u |-> u, op |-> op, out |-> out, messages |-> messages,
     folder |-> NONE, at_cursor |-> NONE]

\* handle_text_message in search mode: no folder, one folder that is sent,
\* or a new card message for the first of several folders.
pager_text_message(u, text) ==
    LET found_folders == FoundFolders[text]
    IN IF Len(found_folders) = 1
       THEN /\ \E nosize \in NoSizeChoices(found_folders[1]) :
                    send_folder_contents(found_folders[1], nosize)
            /\ ev' = PagerEvent(u, "search", "one_folder", ev.messages)
            /\ UNCHANGED <<user_data, disk, now, GEMINI_ENABLED, ai_calls>>
       ELSE IF Len(found_folders) > 1
       THEN /\ user_data' = [user_data EXCEPT
                   ![u] = StoreCard(@, found_folders, 0, Strip(text))]
            /\ ev' = PagerEvent(u, "search", "card",
                        ev.messages \cup
                        {generate_person_card_markup(found_folders, 0)})
            /\ UNCHANGED <<pdf_map, id_counter, disk, now, GEMINI_ENABLED,
                           ai_calls>>
       ELSE /\ ev' = PagerEvent(u, "search", "not_found", ev.messages)
            /\ UNCHANGED <<user_data, pdf_map, id_counter, disk, now,
                           GEMINI_ENABLED, ai_calls>>

\* The 'prev' or 'next' button of a card message: the card of the stored
\* list at the index of the button is stored and the message is edited to
\* show it.
pager_card_button(u, message, new_index) ==
    LET matches == user_data[u].current_matches
    IN /\ message \in ev.messages
       /\ new_index \in {message.prev, message.next} \ {NONE}
       /\ IF matches # NONE /\ ValidIndex(matches, new_index[1])
          THEN /\ user_data' = [user_data EXCEPT
                      ![u] = StoreCard(@, matches, new_index[1],
                                       user_data[u].last_query)]
               /\ ev' = PagerEvent(u, "card_button", "card",
                           (ev.messages \ {message}) \cup
                           {generate_person_card_markup(matches, new_index[1])})
          ELSE /\ ev' = PagerEvent(u, "card_button",
                           IF matches = NONE THEN "session_expired"
                           ELSE "invalid_index", ev.messages)
               /\ UNCHANGED user_data
       /\ UNCHANGED <<pdf_map, id_counter, disk, now, GEMINI_ENABLED, ai_calls>>

\* The select button of a card message, lines 1287-1311: the folder at the
\* index of the button is sent.  The buttons of the message are removed by
\* the refusal, and by the summary that replaces the card.
pager_select_folder(u, message) ==
    LET matches == user_data[u].current_matches
        selected_index == message.select
    IN /\ message \in ev.messages
       /\ IF matches = NONE \/ ~ValidIndex(matches, selected_index)
          THEN /\ ev' = PagerEvent(u, "select_folder", "expired_or_invalid",
                                   ev.messages \ {message})
               /\ UNCHANGED <<user_data, pdf_map, id_counter>>
          ELSE LET folder_path == matches[selected_index + 1]
               IN /\ user_data' = [user_data EXCEPT ![u] = PopPagination(@)]
                  /\ \E nosize \in NoSizeChoices(folder_path) :
                        send_folder_contents(folder_path, nosize)
                  /\ ev' = [PagerEvent(u, "select_folder", "folder_sent",
                               IF CatalogTxt[folder_path] # NONE
                                  /\ CatalogTxt[folder_path] \in disk
                               THEN ev.messages \ {message}
                               ELSE ev.messages)
                            EXCEPT !.folder = folder_path,
                                   !.at_cursor = matches[
                                       user_data[u].current_match_index[1] + 1]]
       /\ UNCHANGED <<disk, now, GEMINI_ENABLED, ai_calls>>

NextPager ==
    \/ \E u \in SessionUsers, text \in Texts : pager_text_message(u, text)
    \/ \E u \in SessionUsers, message \in ev.messages :
          \E new_index \in {message.prev, message.next} :
             pager_card_button(u, message, new_index)
    \/ \E u \in SessionUsers, message \in ev.messages :
          pager_select_folder(u, message)

SpecPager == InitPager /\ [][NextPager]_vars

(***************************************************************************)
(* The short summary of a card: what get_summary_from_folder makes of the  *)
(* content of the summary file.                                            *)
(***************************************************************************)

\* The number of characters read for the short summary (500 in the source,
\* lines 292-293), and the longest file content.
ShortSummaryChars == 3
MaxContentLen == 5

\* Lines 292-295: f.read(n).strip(), with "..." added when n characters are
\* left.
short_summary(content) ==
    LET read == SubSeq(content, 1,
                   IF Len(content) < ShortSummaryChars
                   THEN Len(content) ELSE ShortSummaryChars)
        summary == Strip(read)
    IN IF Len(summary) = ShortSummaryChars
       THEN summary \o <<".", ".", ".">> ELSE summary

\* The content of a summary file: letters and blanks.
InitShort ==
    /\ PureInit
    /\ ev \in {[op |-> "input", content |-> c] :
                 c \in UNION {[1..n -> {"a", " "}] : n \in 0..MaxContentLen}}

call_short_summary ==
    /\ ev.op = "input"
    /\ ev' = [op |-> "short_summary", content |-> ev.content,
              summary |-> short_summary(ev.content)]
    /\ PureIdle

SpecShort == InitShort /\ [][call_short_summary]_vars

(***************************************************************************)
(* send_folder_contents as a function of the folder, the files on the disk *)
(* and the files whose size cannot be read.                                *)
(***************************************************************************)
InitFolder ==
    /\ PureInit
    /\ ev \in {[op |-> "input", folder |-> f, files |-> d, nosize |-> ns] :
                 f \in CatalogFolders, d \in SUBSET CatalogFiles,
                 ns \in SUBSET CatalogPdfFiles}

call_folder_contents ==
    /\ ev.op = "input"
    /\ ev' = [op |-> "folder_contents", folder |-> ev.folder,
              files |-> ev.files, nosize |-> ev.nosize,
              result |-> FolderContents(ev.folder, ev.files, ev.nosize)]
    /\ PureIdle

SpecFolder == InitFolder /\ [][call_folder_contents]_vars

(***************************************************************************)
(* split_text_into_chunks, one step per loop iteration.  ev holds the      *)
(* locals of the call and ev.op the position: "for" at the head of the     *)
(* paragraph loop, "while" at the head of the slicing loop, "return" after *)
(* the return.                                                             *)
(***************************************************************************)
\* text.split('\n\n')
RECURSIVE SplitParagraphs(_)
SplitParagraphs(text) ==
    IF \E i \in 1..(Len(text) - 1) : text[i] = "\n" /\ text[i + 1] = "\n"
    THEN LET first == CHOOSE i \in 1..(Len(text) - 1) :
                          /\ text[i] = "\n" /\ text[i + 1] = "\n"
                          /\ \A j \in 1..(i - 1) :
                                 ~(text[j] = "\n" /\ text[j + 1] = "\n")
         IN <<SubSeq(text, 1, first - 1)>>
                \o SplitParagraphs(DropFirst(text, first + 1))
    ELSE <<text>>

\* The longest text that is split, and the largest max_length.
MaxTextLen == 6
MaxChunkLength == 3

InitChunks ==
    /\ PureInit
    /\ ev \in {[op |-> "for", text |-> t, max_length |-> m,
                paragraphs |-> SplitParagraphs(t), paragraph |-> <<>>,
                current_chunk |-> <<>>, chunks |-> <<>>] :
                 t \in UNION {[1..n -> {"a", "\n"}] : n \in 0..MaxTextLen},
                 m \in 1..MaxChunkLength}

\* for paragraph in ...: the flush of the chunk the paragraph does not fit
chunk_for ==
    /\ ev.op = "for"
    /\ ev.paragraphs # <<>>
    /\ LET paragraph == Head(ev.paragraphs)
           flush == /\ Len(ev.current_chunk) + Len(paragraph) + 2 > ev.max_length
                    /\ ev.current_chunk # <<>>
       IN ev' = [ev EXCEPT !.op = "while",
                           !.paragraphs = Tail(ev.paragraphs),
                           !.paragraph = paragraph,
                           !.chunks = IF flush
                                      THEN Append(@, Strip(ev.current_chunk))
                                      ELSE @,
                           !.current_chunk = IF flush THEN <<>> ELSE @]
    /\ PureIdle

\* while len(paragraph) > max_length: one slice
chunk_while ==
    /\ ev.op = "while"
    /\ Len(ev.paragraph) > ev.max_length
    /\ ev' = [ev EXCEPT !.chunks = Append(@, SubSeq(ev.paragraph, 1, ev.max_length)),
                        !.paragraph = DropFirst(@, ev.max_length)]
    /\ PureIdle

chunk_append_Unsliced ==
    /\ ev.op = "while"
    /\ ev' = [ev EXCEPT !.op = "for",
                        !.current_chunk = @ \o ev.paragraph \o <<"\n", "\n">>]
    /\ PureIdle

\* current_chunk += paragraph + '\n\n', once the slicing loop is left
chunk_append ==
    /\ ev.op = "while"
    /\ ~(Len(ev.paragraph) > ev.max_length)
    /\ ev' = [ev EXCEPT !.op = "for",
                        !.current_chunk = @ \o ev.paragraph \o <<"\n", "\n">>]
    /\ PureIdle

\* the last chunk and the return
chunk_return ==
    /\ ev.op = "for"
    /\ ev.paragraphs = <<>>
    /\ ev' = [ev EXCEPT !.op = "return",
                        !.chunks = IF ev.current_chunk # <<>>
                                   THEN Append(@, Strip(ev.current_chunk))
                                   ELSE @]
    /\ PureIdle

NextChunks == chunk_for \/ chunk_while \/ chunk_append \/ chunk_return

\* The function is synchronous: a call that can take a step takes it.
SpecChunks == InitChunks /\ [][NextChunks]_vars /\ WF_vars(NextChunks)

(***************************************************************************)
(* Properties                                                              *)
(***************************************************************************)

\* The stored request log of a user, and its entries younger than the window
\* at time t.
RequestLog(u) == user_data[u].gemini_requests

RECURSIVE Trailing(_, _)
Trailing(log, t) ==
    IF log = <<>> THEN <<>>
    ELSE IF t - Head(log) < WINDOW
         THEN <<Head(log)>> \o Trailing(Tail(log), t)
         ELSE Trailing(Tail(log), t)

\* The step is a handler of user u that records one of the operations ops.
Handled(u, ops) == ev'.u = u /\ ev'.op \in ops

\* The step in which user u sends a text message.
TextMessage(u) ==
    /\ Handled(u, {"gemini_query", "search"})
    /\ \E text \in Texts : handle_text_message(u, text)

\* The step in which user u, in AI mode, sends a text message.
Question(u) == CurrentMode(u) = MODE_AI /\ TextMessage(u)

\* C1: per user, the external AI capability is called at most
\* MAX_GEMINI_REQUESTS_PER_MINUTE times in any window of 60 seconds (the calls
\* of the window that ends now are counted after every step, a call being
\* dated by the time.time() its handler read), and a user is refused only
\* when that user's own calls fill the budget, whatever the other user did.
C1_RateBudgetPerUser ==
    \A u \in Users :
        /\ Len(ai_calls[u]) <= MAX_GEMINI_REQUESTS_PER_MINUTE
        /\ (ev.u = u /\ ev.out = "rate_limited")
              => Len(ai_calls[u]) = MAX_GEMINI_REQUESTS_PER_MINUTE

\* C1 witness: user 1 has used the whole budget and has just been refused,
\* while user 2 has calls of its own in the same window.
C1_Witness ==
    /\ ev.u = 1 /\ ev.out = "rate_limited"
    /\ Len(ai_calls[1]) = MAX_GEMINI_REQUESTS_PER_MINUTE
    /\ Len(ai_calls[2]) = 1

\* C2: a rate check met by fewer than N stored requests is allowed (so the
\* first N checks on an empty log are); a check met by N stored requests all
\* younger than 60 seconds is refused; a check made more than 60 seconds
\* after the oldest stored request is allowed again.
C2_BurstThenRefusedThenAllowed ==
    [][\A u \in Users :
          (Question(u) /\ GEMINI_ENABLED) =>
             LET log == RequestLog(u)
             IN /\ Len(log) < MAX_GEMINI_REQUESTS_PER_MINUTE
                      => ev'.out # "rate_limited"
                /\ (/\ Len(log) = MAX_GEMINI_REQUESTS_PER_MINUTE
                    /\ \A i \in 1..Len(log) : now - log[i] < WINDOW)
                      => ev'.out = "rate_limited"
                /\ (log # <<>> /\ now - log[1] > WINDOW)
                      => ev'.out # "rate_limited"]_vars

\* C2 witness: a question is let through although the log held N requests,
\* because the oldest of them had left the window.
C2_Witness ==
    /\ ev.op = "gemini_query" /\ ev.ai
    /\ Len(RequestLog(ev.u)) = MAX_GEMINI_REQUESTS_PER_MINUTE
    /\ RequestLog(ev.u)[1] > 0
    /\ now > WINDOW

\* C3: the rate check prunes the log to the entries of the trailing 60
\* seconds; with the pruned log full the request is refused and the stored
\* log is the pruned log; otherwise the check stores the pruned log with now
\* appended, which is also the log the handler leaves when the request then
\* reaches the AI call.
C3_PruneThenAppendIfAllowed ==
    [][\A u \in Users :
          (Question(u) /\ GEMINI_ENABLED) =>
             LET pruned == Trailing(RequestLog(u), now)
             IN IF Len(pruned) >= MAX_GEMINI_REQUESTS_PER_MINUTE
                THEN /\ ev'.out = "rate_limited"
                     /\ ev'.rate_log = pruned
                     /\ user_data'[u].gemini_requests = pruned
                ELSE /\ ev'.out # "rate_limited"
                     /\ ev'.rate_log = Append(pruned, now)
                     /\ ev'.ai => user_data'[u].gemini_requests
                                     = Append(pruned, now)]_vars

\* C3 witness: an allowed question whose log lost an old entry and gained now.
C3_Witness ==
    /\ ev.op = "gemini_query" /\ ev.ai
    /\ ev.rate_log = RequestLog(ev.u)
    /\ Len(ev.rate_log) = 1
    /\ Len(ai_calls[ev.u]) = 1
    /\ now >= WINDOW + WINDOW

\* C4: an AI call is made only after the rate check has passed; a question
\* the check refuses makes no AI call, is answered with the limit notice and
\* leaves the user in search mode without an active document.
C4_RefusalResetsToSearch ==
    [][\A u \in Users :
          (Question(u) /\ GEMINI_ENABLED) =>
             LET pruned == Trailing(RequestLog(u), now)
             IN /\ ev'.ai => Len(pruned) < MAX_GEMINI_REQUESTS_PER_MINUTE
                /\ Len(pruned) >= MAX_GEMINI_REQUESTS_PER_MINUTE =>
                      /\ ~ev'.ai
                      /\ ai_calls' = ai_calls
                      /\ ev'.out = "rate_limited"
                      /\ user_data'[u].mode = Some(MODE_SEARCH)
                      /\ user_data'[u].pdf_context_path = NONE]_vars

\* C4 witness: a user in AI mode with a document has just been refused.
C4_Witness ==
    /\ ev.op = "gemini_query" /\ ev.out = "rate_limited"
    /\ ev.before = MODE_AI
    /\ CurrentMode(ev.u) = MODE_SEARCH

\* C5: an 'ask AI' button that carries a known handle whose file exists,
\* pressed in search mode, leaves the user in AI mode with the path of that
\* handle as the active document.
C5_AskAiEntersAiContext ==
    [][\A u \in Users, pdf_id \in 0..MaxIds :
          (/\ pdf_id \in DOMAIN pdf_map
           /\ pdf_map[pdf_id] \in disk
           /\ CurrentMode(u) = MODE_SEARCH
           /\ Handled(u, {"ask_ai"})
           /\ ask_ai(u, pdf_id))
          => /\ user_data'[u].mode = Some(MODE_AI)
             /\ user_data'[u].pdf_context_path = pdf_map[pdf_id]]_vars

\* C5 witness: the button has been accepted from search mode.
C5_Witness ==
    /\ ev.op = "ask_ai" /\ ev.out = "ai_mode" /\ ev.before = MODE_SEARCH
    /\ CurrentMode(ev.u) = MODE_AI
    /\ user_data[ev.u].pdf_context_path \in disk

\* C6: /cancel, in either mode and in any session state, leaves the user in
\* search mode without an active document and with the broadcast setting it
\* had.
C6_CancelResetsMode ==
    [][\A u \in Users :
          (Handled(u, {"cancel_command"}) /\ cancel_command(u))
          => /\ CurrentMode(u)' = MODE_SEARCH
             /\ user_data'[u].pdf_context_path = NONE
             /\ user_data'[u].send_birthday_broadcast
                   = user_data[u].send_birthday_broadcast]_vars

\* C6 witness: /cancel has been handled in AI mode by a user who had turned
\* the broadcast off.
C6_Witness ==
    /\ ev.op = "cancel_command" /\ ev.before = MODE_AI
    /\ user_data[ev.u].send_birthday_broadcast = Some(FALSE)

\* C7: a question whose AI call returns without an exception and without a
\* text leaves the user in search mode without an active document.
C7_NoAnswerResetsToSearch ==
    [][\A u \in Users :
          (/\ Question(u)
           /\ ev'.out \in {"no_answer_doc_says_mode_reset",
                           "no_answer_says_mode_reset"})
          => /\ CurrentMode(u)' = MODE_SEARCH
             /\ user_data'[u].pdf_context_path = NONE]_vars

\* The active document of u exists and is over the AI size limit.
ActiveDocumentTooBig(u) ==
    LET path == user_data[u].pdf_context_path
    IN /\ path # NONE
       /\ path \in disk
       /\ FileSizeMB(path) > MAX_PDF_SIZE_MB_AI

\* C8, as stated: a question asked while the active document is over the AI
\* size limit makes no AI call, is answered with a notice and leaves the user
\* in search mode without an active document.
C8_Original ==
    [][\A u \in Users :
          (Question(u) /\ ActiveDocumentTooBig(u))
          => /\ ~ev'.ai
             /\ ai_calls' = ai_calls
             /\ ev'.out \in {"file_too_big", "rate_limited"}
             /\ CurrentMode(u)' = MODE_SEARCH
             /\ user_data'[u].pdf_context_path = NONE]_vars

\* C8, amended: with the AI capability enabled, a question asked while the
\* active document exists and is over the AI size limit makes no AI call, is
\* answered with a notice (of the size limit or, when the rate check refuses
\* first, of the rate limit) and leaves the user in search mode without an
\* active document.
C8_TooBigResetsToSearch ==
    [][\A u \in Users :
          (Question(u) /\ GEMINI_ENABLED /\ ActiveDocumentTooBig(u))
          => /\ ~ev'.ai
             /\ ai_calls' = ai_calls
             /\ ev'.out \in {"file_too_big", "rate_limited"}
             /\ CurrentMode(u)' = MODE_SEARCH
             /\ user_data'[u].pdf_context_path = NONE]_vars

\* C8 witness: a question has been refused because of the size of the file.
C8_Witness ==
    /\ ev.op = "gemini_query" /\ ev.out = "file_too_big"
    /\ ev.before = MODE_AI
    /\ CurrentMode(ev.u) = MODE_SEARCH

\* C9: /start, /search and /cancel each drop the match list, its cursor and
\* the text of the last query, set the mode to search and keep the broadcast
\* setting.
C9_CommandsClearPagination ==
    [][\A u \in Users :
          (/\ Handled(u, {"start", "search_command", "cancel_command"})
           /\ (start(u) \/ search_command(u) \/ cancel_command(u)))
          => /\ user_data'[u].current_matches = NONE
             /\ user_data'[u].current_match_index = NONE
             /\ user_data'[u].last_query = NONE
             /\ CurrentMode(u)' = MODE_SEARCH
             /\ user_data'[u].send_birthday_broadcast
                   = user_data[u].send_birthday_broadcast]_vars

\* C10: a text message is handled as an AI question exactly when the mode is
\* AI, and as a search otherwise; a search, a pagination button, a folder
\* selection and an answered question leave the mode as it was.
C10_ModeRoutesTextAndIsSticky ==
    [][\A u \in Users :
          /\ TextMessage(u)
                => /\ ev'.op = "gemini_query" <=> CurrentMode(u) = MODE_AI
                   /\ ev'.op = "search" <=> CurrentMode(u) # MODE_AI
          /\ (\/ CurrentMode(u) # MODE_AI /\ TextMessage(u)
              \/ /\ Handled(u, {"card_button"})
                 /\ \E i \in Indices : card_button(u, i)
              \/ /\ Handled(u, {"select_folder"})
                 /\ \E i \in Indices : select_folder(u, i)
              \/ ev'.out = "answered" /\ Question(u))
                => CurrentMode(u)' = CurrentMode(u)]_vars

\* C10 witness: a question has been answered and the user is still in AI
\* mode with the document.
C10_Witness ==
    /\ ev.op = "gemini_query" /\ ev.out = "answered"
    /\ ev.before = MODE_AI
    /\ CurrentMode(ev.u) = MODE_AI
    /\ user_data[ev.u].pdf_context_path # NONE

\* C11: every session starts in search mode, and a step that takes a user
\* from search mode to AI mode is an accepted 'ask AI' button of that user.
C11_AiModeOnlyByAskAi ==
    /\ \A u \in Users : CurrentMode(u) = MODE_SEARCH
    /\ [][\A u \in Users :
             (CurrentMode(u) = MODE_SEARCH /\ CurrentMode(u)' = MODE_AI)
             => /\ ev'.u = u
                /\ ev'.op = "ask_ai"
                /\ ev'.out = "ai_mode"
                /\ \E pdf_id \in DOMAIN pdf_map :
                      user_data'[u].pdf_context_path = pdf_map[pdf_id]]_vars

\* C11 witness: the user is in AI mode after commands, searches and buttons
\* of every other kind left the mode in search.
C11_Witness ==
    /\ CurrentMode(1) = MODE_AI
    /\ ev.op = "ask_ai" /\ ev.before = MODE_SEARCH
    /\ user_data[1].current_matches # NONE
    /\ user_data[1].send_birthday_broadcast # NONE

\* C12: a question whose AI call raises is answered with the error notice,
\* makes that one call and no second one, and leaves the mode and the active
\* document as they were: the user is still in AI mode with the document.
C12_AiErrorKeepsMode ==
    [][\A u \in Users :
          (/\ Handled(u, {"gemini_query"})
           /\ CurrentMode(u) = MODE_AI
           /\ ev'.ai
           /\ gemini_query(u, "raise"))
          => /\ ev'.out = "ai_error"
             /\ ai_calls'[u] = Append(ai_calls[u], now)
             /\ CurrentMode(u)' = MODE_AI
             /\ user_data'[u].mode = user_data[u].mode
             /\ user_data'[u].pdf_context_path
                   = user_data[u].pdf_context_path]_vars

\* C12 witness: the AI call on a document has just failed.
C12_Witness ==
    /\ ev.op = "gemini_query" /\ ev.out = "ai_error" /\ ev.ai
    /\ CurrentMode(ev.u) = MODE_AI
    /\ user_data[ev.u].pdf_context_path \in disk

\* C13: for every match list and valid index the card offers the prev button
\* exactly when index > 0, targeting index - 1, and the next button exactly
\* when index < len(matches) - 1, targeting index + 1; so neither button of
\* the first or last card leads to the other end.
C13_PagerButtons ==
    ev.op = "generate_person_card_markup" =>
        LET markup == ev.markup
            index == ev.index
            last == Len(ev.matches) - 1
        IN /\ markup.prev # NONE <=> index > 0
           /\ markup.prev # NONE => markup.prev = Some(index - 1)
           /\ markup.next # NONE <=> index < last
           /\ markup.next # NONE => markup.next = Some(index + 1)
           /\ index = 0 => markup.prev # Some(last)
           /\ index = last => markup.next # Some(0)

\* C13 witness: the first card of three has been drawn: no prev, next to 1.
C13_Witness ==
    /\ ev.op = "generate_person_card_markup"
    /\ Len(ev.matches) = 3 /\ ev.index = 0
    /\ ev.markup.prev = NONE
    /\ ev.markup.next = Some(1)

\* C14: a card button whose target index is outside [0, len(matches)) of
\* the stored match list is answered with the invalid-index notice and
\* changes nothing in the session: the match list, the cursor, the text of
\* the last query, the mode and the active document stay as they were.
C14_InvalidIndexRejected ==
    [][\A u \in Users, i \in Indices :
          (/\ Handled(u, {"card_button"})
           /\ user_data[u].current_matches # NONE
           /\ ~(0 <= i /\ i < Len(user_data[u].current_matches))
           /\ card_button(u, i))
          => /\ ev'.out = "invalid_index"
             /\ user_data' = user_data]_vars

\* C14 witness: a card button past the end has been refused while the second
\* card was shown; the cursor is still on the second card.
C14_Witness ==
    /\ ev.op = "card_button" /\ ev.out = "invalid_index"
    /\ user_data[ev.u].current_matches # NONE
    /\ user_data[ev.u].current_match_index = Some(1)

\* The select button with index i is accepted for user u: a match list is
\* stored and i is an index into it.
SelectAccepted(u, i) ==
    /\ user_data[u].current_matches # NONE
    /\ 0 <= i /\ i < Len(user_data[u].current_matches)

RECURSIVE SumSizes(_, _)
SumSizes(files, getsize) ==
    IF files = <<>> THEN 0
    ELSE getsize[Head(files)] + SumSizes(Tail(files), getsize)

\* The first j of the documents fit both budgets.
Fits(files, getsize, j) ==
    /\ j <= MAX_PDF_TO_SEND_COUNT
    /\ SumSizes(SubSeq(files, 1, j), getsize) <= MAX_PDF_TOTAL_SIZE_MB_SEND

\* C16: whatever the candidates and their sizes, the documents admitted are
\* at most MAX_PDF_TO_SEND_COUNT and their sizes add up to at most
\* MAX_PDF_TOTAL_SIZE_MB_SEND; they are the candidates of readable size up to
\* the first one that would breach a limit, that one is answered with one
\* notice, and nothing after it is admitted.
C16_BudgetsRespected ==
    ev.op = "budget_loop" =>
        LET readable == SelectSeq(ev.pdfs, LAMBDA p : p \notin ev.nosize)
            files == ev.result.files
            notices == ev.result.notices
            k == Len(files)
        IN /\ k <= MAX_PDF_TO_SEND_COUNT
           /\ SumSizes(files, ev.getsize) <= MAX_PDF_TOTAL_SIZE_MB_SEND
           /\ k <= Len(readable)
           /\ files = SubSeq(readable, 1, k)
           /\ Len(notices) <= 1
           /\ notices # <<>> <=> k < Len(readable)
           /\ k < Len(readable) => ~Fits(readable, ev.getsize, k + 1)

\* C16 witness: of three candidates the first is admitted, the second does
\* not fit the size budget and the third, which would fit, is not admitted.
C16_Witness ==
    /\ ev.op = "budget_loop"
    /\ Len(ev.pdfs) = 3 /\ ev.nosize = {}
    /\ ev.result.files = <<1>>
    /\ ev.result.notices = <<"size">>
    /\ ev.getsize[1] + ev.getsize[3] <= MAX_PDF_TOTAL_SIZE_MB_SEND

\* The elements of a sequence.
Range(seq) == {seq[i] : i \in 1..Len(seq)}

\* C17: for a query with at least one word, a folder of the list is in the
\* result exactly when its cleaned display name contains every word of the
\* query; nothing else is in the result.
C17_MatchIffAllWords ==
    (ev.op = "find_folder_matches" /\ QueryWords(ev.query) # <<>>) =>
        /\ Range(ev.result) \subseteq Range(ev.folders)
        /\ \A f \in Range(ev.folders) :
              f \in Range(ev.result)
              <=> \A w \in Range(QueryWords(ev.query)) :
                     Contains(CleanFolderName(f), w)

\* C17 witness: the query 'a B' has matched the folders named ab and a_B
\* and not the one named Sherlock_ac.
C17_Witness ==
    /\ ev.op = "find_folder_matches"
    /\ ev.query = <<"a", " ", "B">>
    /\ ev.folders = <<FolderAc, FolderA_B>>
    /\ ev.result = <<FolderA_B>>

\* C18: a query that is empty or made of whitespace and underscores only
\* gives the empty result for every folder list.
C18_NoWordsNoMatches ==
    (/\ ev.op = "find_folder_matches"
     /\ \A i \in 1..Len(ev.query) : ev.query[i] \in Whitespace \cup {"_"})
    => ev.result = <<>>

\* C18 witness: the query '_ ' has been matched against two folders.
C18_Witness ==
    /\ ev.op = "find_folder_matches"
    /\ ev.query = <<"_", " ">>
    /\ Len(ev.folders) = 2
    /\ ev.result = <<>>

\* C19: the result is the folder list with some entries left out: its
\* entries are entries of the list at strictly increasing places.
C19_MatchesInCatalogOrder ==
    ev.op = "find_folder_matches" =>
        \E place \in [1..Len(ev.result) -> 1..Len(ev.folders)] :
            /\ \A j \in 1..Len(ev.result) : ev.result[j] = ev.folders[place[j]]
            /\ \A j \in 1..(Len(ev.result) - 1) : place[j] < place[j + 1]

\* C19 witness: both folders of a list match, and the result has them in the
\* order of the list, which is not the sorted order.
C19_Witness ==
    /\ ev.op = "find_folder_matches"
    /\ ev.folders = <<FolderAb, FolderA_B>>
    /\ ev.result = ev.folders

C21_AllocationAtomic ==
    /\ [](\A u1 \in Users, u2 \in Users :
             \A k1 \in 1..Len(ev.procs[u1].got),
                k2 \in 1..Len(ev.procs[u2].got) :
                LET a1 == ev.procs[u1].got[k1]
                    a2 == ev.procs[u2].got[k2]
                IN /\ (u1 # u2 \/ k1 # k2) => a1[1] # a2[1]
                   /\ a1[1] \in DOMAIN pdf_map
                   /\ pdf_map[a1[1]] = a1[2])
    /\ [][\A id \in DOMAIN pdf_map :
             id \in DOMAIN pdf_map' /\ pdf_map'[id] = pdf_map[id]]_vars

\* C21 witness: user 2 allocated a handle while user 1 was waiting for its
\* first document to be sent and had a second one to come.
C21_Witness ==
    /\ ev.procs[1].pc = "await_send_document"
    /\ Len(ev.procs[1].docs) = 2
    /\ Len(ev.procs[1].got) = 1
    /\ Len(ev.procs[2].got) = 1
    /\ ev.procs[2].pc = "await_send_document"

\* the handle resolves to no document, or to one that is no longer on disk
StaleHandle(pdf_id) ==
    pdf_id \notin DOMAIN pdf_map \/ pdf_map[pdf_id] \notin disk

\* C22: an 'ask AI' button with a stale or unknown handle is answered with
\* the not-found notice and changes neither the session nor the handle
\* table; a card or select button pressed while the session holds no match
\* list is answered with the session-expired notice and changes nothing.
C22_ProtocolErrorsLeaveSession ==
    [][\A u \in SessionUsers :
          /\ Handled(u, {"ask_ai"}) =>
               \A pdf_id \in 0..MaxIds :
                  (StaleHandle(pdf_id) /\ ask_ai(u, pdf_id)) =>
                     /\ ev'.out = "context_not_found"
                     /\ user_data' = user_data
                     /\ pdf_map' = pdf_map /\ id_counter' = id_counter
          /\ (Handled(u, {"card_button"})
                /\ user_data[u].current_matches = NONE) =>
               /\ ev'.out = "session_expired"
               /\ user_data' = user_data
               /\ pdf_map' = pdf_map /\ id_counter' = id_counter
          /\ (Handled(u, {"select_folder"})
                /\ user_data[u].current_matches = NONE) =>
               /\ ev'.out = "expired_or_invalid"
               /\ user_data' = user_data
               /\ pdf_map' = pdf_map /\ id_counter' = id_counter]_vars

\* C22 witness: a user in AI mode pressed an 'ask AI' button whose handle
\* is not answered by the table, which holds other handles.
C22_Witness ==
    /\ ev.op = "ask_ai" /\ ev.out = "context_not_found"
    /\ CurrentMode(ev.u) = MODE_AI
    /\ id_counter > 0

\* C23: a second build from the same path list leaves the person folders,
\* the surnames and the surnames of each category as the first build made
\* them.
C23_BuildIdempotent ==
    (ev.op = "load_and_extract_person_folders" /\ ev.builds >= 2) =>
        /\ ev.index.PERSON_FOLDERS = ev.before.PERSON_FOLDERS
        /\ ev.index.UNIQUE_SURNAMES = ev.before.UNIQUE_SURNAMES
        /\ ev.index.GROUPED_SURNAMES = ev.before.GROUPED_SURNAMES

\* C23 witness: the second build of an index with two person folders, two
\* surnames and a category.
C23_Witness ==
    /\ ev.op = "load_and_extract_person_folders" /\ ev.builds = 2
    /\ Len(ev.index.PERSON_FOLDERS) = 2
    /\ Cardinality(ev.index.UNIQUE_SURNAMES) = 2
    /\ DOMAIN ev.index.GROUPED_SURNAMES # {}

\* C24: no person folder of a built index is the base folder, and none has
\* an empty basename.
C24_NoBaseFolderNoEmptyName ==
    ev.op = "load_and_extract_person_folders" =>
        \A i \in 1..Len(ev.index.PERSON_FOLDERS) :
            /\ ev.index.PERSON_FOLDERS[i] # BASE_FOLDER_NAME
            /\ Basename(ev.index.PERSON_FOLDERS[i]) # <<>>

\* C24 witness: a path list with a file that lies in the base folder itself
\* and a file of a person folder.
C24_Witness ==
    /\ ev.op = "load_and_extract_person_folders"
    /\ \E i \in 1..Len(ev.index.RELATIVE_FILE_PATHS) :
          Dirname(ev.index.RELATIVE_FILE_PATHS[i]) = BASE_FOLDER_NAME
    /\ ev.index.PERSON_FOLDERS # <<>>

\* C25: every person folder of a built index has a path of the catalog
\* that starts with the folder and a separator, which is the test the
\* folder scan of send_folder_contents applies.
C25_FolderHasCatalogPath ==
    ev.op = "load_and_extract_person_folders" =>
        \A i \in 1..Len(ev.index.PERSON_FOLDERS) :
            \E j \in 1..Len(ev.index.RELATIVE_FILE_PATHS) :
                LET folder == ev.index.PERSON_FOLDERS[i]
                    path == ev.index.RELATIVE_FILE_PATHS[j]
                IN /\ StartsWith(path, folder \o <<"/">>)
                   /\ InFolder(path, folder)

\* C25 witness: an index of two person folders, one of them with a capital
\* letter in its path below the base folder.
C25_Witness ==
    /\ ev.op = "load_and_extract_person_folders"
    /\ Len(ev.index.PERSON_FOLDERS) = 2
    /\ \E i \in 1..2 :
          Lower(Tail(ev.index.PERSON_FOLDERS[i]))
             # Tail(ev.index.PERSON_FOLDERS[i])

\* C26: when files of the folder qualify as its summary, the summary of the
\* card and the summary sent with the folder are both the first of them in
\* catalog order.
C26_FirstSummaryWins ==
    ev.op = "summaries" =>
        LET qualifying ==
                SelectSeq(ev.paths,
                          LAMBDA rel : /\ InFolder(rel, ev.folder)
                                       /\ HasExt(rel, ExtTxt)
                                       /\ NamesMatch(rel, ev.folder))
        IN qualifying # <<>> =>
              /\ ev.card = FullPath(qualifying[1])
              /\ ev.full = FullPath(qualifying[1])

\* C27: a caller who is not in the whitelist of startup and the admin
\* commands is denied at every guarded entry point before the handler body
\* runs: the caller's session and the handle table are unchanged.
C27_NotWhitelistedIsDenied ==
    [][\A u \in Users :
          (/\ ev'.u = u
           /\ ev'.op \in {"start", "search_command", "cancel_command",
                          "handle_text_message", "button_handler"}
           /\ u \notin ev.bot_data.whitelist) =>
             /\ ev'.out = "denied"
             /\ user_data'[u] = user_data[u]
             /\ pdf_map' = pdf_map /\ id_counter' = id_counter]_vars

\* C28: the broadcast setting of a user is on until the user toggles it;
\* the toggle button negates it, and every other step leaves the stored
\* setting as it was.
C28_BroadcastOnlyToggled ==
    /\ \A u \in Users : get_user_broadcast_status(u)
    /\ [][\A u \in Users :
             IF Handled(u, {"toggle_broadcast"})
             THEN Get(user_data'[u].send_birthday_broadcast, TRUE)
                     = ~get_user_broadcast_status(u)
             ELSE user_data'[u].send_birthday_broadcast
                     = user_data[u].send_birthday_broadcast]_vars

\* C28 witness: a user in AI mode has switched the broadcast off; the step
\* before was another handler.
C28_Witness ==
    \E u \in Users :
        /\ user_data[u].send_birthday_broadcast = Some(FALSE)
        /\ CurrentMode(u) = MODE_AI
        /\ ev.op = "ask_ai" /\ ev.u = u

\* C29: the folder an accepted select button sends is the folder at the
\* index stored in the session when the button is pressed.
C29_SelectResolvesAtCursor ==
    (ev.op = "select_folder" /\ ev.out = "folder_sent") =>
        ev.folder = ev.at_cursor

\* C30: the candidates of readable size are taken in order; the first one
\* met with MAX_PDF_TO_SEND_COUNT documents admitted stops the loop with
\* the count notice, whatever its size; otherwise the first one that would
\* take the sum over MAX_PDF_TOTAL_SIZE_MB_SEND stops it with the size
\* notice; there is at most one notice, and the admitted documents are a
\* prefix of the candidates of readable size.
C30_CountCheckBeforeSizeCheck ==
    ev.op = "budget_loop" =>
        LET readable == SelectSeq(ev.pdfs, LAMBDA p : p \notin ev.nosize)
            files == ev.result.files
            notices == ev.result.notices
            k == Len(files)
        IN /\ k <= Len(readable) /\ files = SubSeq(readable, 1, k)
           /\ Len(notices) <= 1
           /\ \A j \in 1..k :
                 /\ j - 1 < MAX_PDF_TO_SEND_COUNT
                 /\ SumSizes(SubSeq(readable, 1, j), ev.getsize)
                       <= MAX_PDF_TOTAL_SIZE_MB_SEND
           /\ IF k = Len(readable) THEN notices = <<>>
              ELSE IF k >= MAX_PDF_TO_SEND_COUNT THEN notices = <<"count">>
              ELSE /\ notices = <<"size">>
                   /\ SumSizes(files, ev.getsize) + ev.getsize[readable[k + 1]]
                         > MAX_PDF_TOTAL_SIZE_MB_SEND

\* C30 witness: the candidate met with the count limit reached would also
\* take the sum over the size limit, and the notice names the count limit.
C30_Witness ==
    /\ ev.op = "budget_loop"
    /\ ev.nosize = {}
    /\ Len(ev.result.files) = MAX_PDF_TO_SEND_COUNT
    /\ Len(ev.pdfs) > MAX_PDF_TO_SEND_COUNT
    /\ SumSizes(ev.result.files, ev.getsize)
          + ev.getsize[ev.pdfs[MAX_PDF_TO_SEND_COUNT + 1]]
          > MAX_PDF_TOTAL_SIZE_MB_SEND
    /\ ev.result.notices = <<"count">>

\* C31: a candidate whose size cannot be read is not admitted and sends no
\* notice, and the loop gives the files and notices it gives for the list
\* without the candidates of unreadable size.
C31_UnreadableSizeSkipped ==
    ev.op = "budget_loop" =>
        LET readable == SelectSeq(ev.pdfs, LAMBDA p : p \notin ev.nosize)
        IN /\ \A i \in 1..Len(ev.result.files) :
                 ev.result.files[i] \notin ev.nosize
           /\ ev.result = BudgetLoopSized(readable, ev.getsize, {}, <<>>, 0)
           /\ readable = <<>> => ev.result.notices = <<>>

\* C31 witness: the last candidate is of unreadable size and is met with
\* the count limit reached; no notice is sent.
C31_Witness ==
    /\ ev.op = "budget_loop"
    /\ Len(ev.pdfs) = MAX_PDF_TO_SEND_COUNT + 1
    /\ ev.nosize = {MAX_PDF_TO_SEND_COUNT + 1}
    /\ Len(ev.result.files) = MAX_PDF_TO_SEND_COUNT
    /\ ev.result.notices = <<>>

C33_EllipsisIffTruncated ==
    ev.op = "short_summary" =>
        LET first == Strip(SubSeq(ev.content, 1,
                        IF Len(ev.content) < ShortSummaryChars
                        THEN Len(ev.content) ELSE ShortSummaryChars))
        IN ev.summary = IF Len(ev.content) > ShortSummaryChars
                        THEN first \o <<".", ".", ".">> ELSE first

\* C34: the 'empty folder' message is sent exactly when neither a summary
\* nor a document is sent for the folder.
C34_EmptyIffNothingSurfaced ==
    ev.op = "folder_contents" =>
        (ev.result.empty <=>
            (ev.result.summary = NONE /\ ev.result.documents = <<>>))

\* C35: split_text_into_chunks returns for every text and every max_length
\* of at least 1, and no chunk it returns is longer than max_length.
C35_ChunksTerminateBounded ==
    /\ [](\A i \in 1..Len(ev.chunks) : Len(ev.chunks[i]) <= ev.max_length)
    /\ <>(ev.op = "return")

C35_Witness ==
    /\ ev.op = "return"
    /\ Len(ev.text) > ev.max_length
    /\ Len(ev.chunks) >= 3
    /\ \E i \in 1..Len(ev.chunks) : Len(ev.chunks[i]) = ev.max_length
    /\ \E i \in 1..Len(ev.chunks) : \E j \in 1..Len(ev.chunks[i]) :
           ev.chunks[i][j] = "\n"

\* C36: after every handled event a session is in AI mode if and only if it
\* holds a document.
C36_AiModeIffDocument ==
    \A u \in Users :
        (CurrentMode(u) = MODE_AI) <=> (user_data[u].pdf_context_path # NONE)

C36_Witness ==
    /\ ev.op = "gemini_query"
    /\ ev.before = MODE_AI
    /\ \E u \in Users :
           /\ CurrentMode(u) = MODE_AI
           /\ user_data[u].pdf_context_path \in disk

\* C37: a session that holds a match list holds at least two folders and a
\* cursor that is an index of the list.
C37_MatchesHaveValidCursor ==
    \A u \in Users :
        user_data[u].current_matches # NONE =>
            /\ Len(user_data[u].current_matches) >= 2
            /\ user_data[u].current_match_index # NONE
            /\ ValidIndex(user_data[u].current_matches,
                          user_data[u].current_match_index[1])

C37_Witness ==
    /\ ev.op = "card_button"
    /\ ev.out = "invalid_index"
    /\ user_data[ev.u].current_matches # NONE
    /\ user_data[ev.u].current_match_index
           = Some(Len(user_data[ev.u].current_matches) - 1)

\* C38: a prev/next button with an index of the stored match list sets the
\* cursor to that index and changes nothing else of the session: the match
\* list, the query, the mode, the document, the request log and the
\* broadcast setting stay as they were.
C38_NavigationChangesOnlyCursor ==
    [][\A u \in Users : \A i \in Indices :
          ( /\ Handled(u, {"card_button"})
            /\ user_data[u].current_matches # NONE
            /\ ValidIndex(user_data[u].current_matches, i)
            /\ card_button(u, i) )
          => user_data' =
                 [user_data EXCEPT ![u].current_match_index = Some(i)]]_vars

C38_Witness ==
    /\ ev.op = "card_button"
    /\ ev.out = "card"
    /\ user_data[ev.u].current_match_index = Some(1)
    /\ Len(user_data[ev.u].current_matches) = 3
    /\ user_data[ev.u].last_query # NONE
    /\ user_data[ev.u].pdf_context_path # NONE

\* C39: a question rejected for the size of the document leaves the request
\* log as the pruning left it, and a question whose AI call raised or gave
\* no text leaves the pruned log with the time of the question appended, which
\* the window of the same instant counts.
C39_RateSlotByOutcome ==
    [][\A u \in Users :
          Handled(u, {"gemini_query"}) =>
              LET pruned == PruneRequests(user_data[u].gemini_requests, now)
                  after == user_data'[u].gemini_requests
              IN /\ ev'.out = "file_too_big" => after = pruned
                 /\ ev'.out \in {"ai_error", "no_answer_doc_says_mode_reset",
                                 "no_answer_says_mode_reset"} =>
                        /\ after = Append(pruned, now)
                        /\ Len(PruneRequests(after, now)) = Len(pruned) + 1]_vars

C39_Witness ==
    /\ ev.op = "gemini_query"
    /\ ev.out = "file_too_big"
    /\ Len(ev.rate_log) >= 2
    /\ user_data[ev.u].gemini_requests
           = SubSeq(ev.rate_log, 1, Len(ev.rate_log) - 1)

\* C40: after every build the surname set is the union of the surnames of
\* the categories, and each of its surnames is the surname of a person
\* folder of that build.
C40_SurnamesOfLatestBuild ==
    ev.op = "load_and_extract_person_folders" =>
        LET index == ev.index
            grouped == UNION {{index.GROUPED_SURNAMES[k][i] :
                                  i \in 1..Len(index.GROUPED_SURNAMES[k])} :
                              k \in DOMAIN index.GROUPED_SURNAMES}
        IN /\ index.UNIQUE_SURNAMES = grouped
           /\ \A surname \in index.UNIQUE_SURNAMES :
                  \E i \in 1..Len(index.PERSON_FOLDERS) :
                      SurnameOf(index.PERSON_FOLDERS[i]) = Some(surname)

====
